---- MODULE Spec2Model ----
(***************************************************************************)
(* Perfect-Date: the FastAPI backend (modern-stack/backend/server.py).     *)
(*                                                                         *)
(* Shared-plan store: the table shared_date_plans, the handlers            *)
(* POST /api/share-date, GET /api/shared/{id}, GET /shared/{id} and        *)
(* GET /api/og-image/{id}, and the wall clock; served one request at a     *)
(* time (Spec) and with their database statements interleaved (SpecConc).  *)
(*                                                                         *)
(* Geographic part: haversine_distance, calculate_midpoint_and_radius and  *)
(* the location handling of POST /api/generate-date (SpecGeo).             *)
(*                                                                         *)
(* Time is counted in whole hours since an epoch (UTC).  A timestamp text  *)
(* is the tuple <<date, separator, hour>>: the date and the hour are       *)
(* zero-padded fixed-width digit fields, so their text order is their      *)
(* numeric order; the separator is the character code between them         *)
(* (84 = 'T' in datetime.isoformat(), 32 = ' ' in SQLite's                 *)
(* CURRENT_TIMESTAMP).  NULL is the empty tuple.                           *)
(***************************************************************************)
EXTENDS Integers, Sequences, FiniteSets, TLC

VARIABLES
    now,        \* wall clock, hours since the epoch, UTC
    tz,         \* the server's UTC offset in hours (datetime.now() is local time)
    plans,      \* rows of table shared_date_plans
    resp,       \* the response returned at the current clock reading, if any
    fetched,    \* history: successful display fetches per id
    pc,         \* per worker: position inside a handler (interleaved runs)
    loc,        \* per worker: the handler's local variables
    pts,        \* the two coordinates under consideration, <<location1, location2>>
    calc,       \* outcome of the last calculate_midpoint_and_radius call
    gen,        \* the last POST /api/generate-date exchange
    areq,       \* the arguments of a generate_activities call
    acts,       \* what that call returned
    idea,       \* the last generate_date_ideas call: its inputs and what it returned
    busy,       \* the last get_busy_status call: place, clock reading and label
    gw,         \* the last call of a Place Data Gateway operation (map_tools.py)
    enh         \* the current enhance_with_real_places pass: activities done and to do

shareVars == <<now, tz, plans, resp, fetched, pc, loc>>
geoVars == <<pts, calc, gen, areq, acts, idea, busy, gw, enh>>
vars == <<shareVars, geoVars>>

(* ------------------------------ bounds -------------------------------- *)
NumIds == 2        \* size of the share-id space
MaxViews == 2      \* display fetches, all plans together
MaxTime == 48      \* last clock reading
TickHours == 12    \* clock granularity
NumWorkers == 2    \* concurrently served requests

Ids == 1..NumIds
Workers == 1..NumWorkers
NULL == <<>>

\* The server's time zone: US Eastern (the default location is Fayetteville, NC) or UTC.
TZOffsets == {-5, 0}

(* --------------------------- request bodies --------------------------- *)
\* ShareDateRequest.expiry_hours as it arrives: omitted, JSON null, or an integer.
ExpiryFields ==
    {[kind |-> "omitted", v |-> 0], [kind |-> "null", v |-> 0]}
        \cup {[kind |-> "int", v |-> h] : h \in {-1, 0, 1}}

\* The other fields of a ShareDateRequest; the handler copies them into the row as
\* they are, apart from the title it derives when none is given.
SharePayloads ==
    { [activities |-> <<"Lunch", "Drinks">>, location |-> "Raleigh",
       date_location |-> <<"Durham">>,
       budget |-> 60, event_type |-> "casual_dating", vibes |-> <<"romantic">>,
       title |-> NULL] }

\* pydantic: ShareDateRequest.expiry_hours: Optional[int] = 168
ExpiryHours(field) ==
    IF field.kind = "omitted" THEN <<168>>
    ELSE IF field.kind = "null" THEN NULL
    ELSE <<field.v>>

(* ----------------------------- timestamps ----------------------------- *)
\* datetime.isoformat() of a local time t: "YYYY-MM-DDTHH:..."
IsoFormat(t) == <<t \div 24, 84, t % 24>>

\* SQLite CURRENT_TIMESTAMP at UTC time t: "YYYY-MM-DD HH:..."
CurrentTimestamp(t) == <<t \div 24, 32, t % 24>>

\* datetime.now(): naive local time
LocalNow(t, offset) == t + offset

\* SQLite's comparison of two TEXT values: left to right, first difference decides.
TextGreater(a, b) ==
    \E i \in 1..Len(a) :
        /\ i <= Len(b)
        /\ a[i] > b[i]
        /\ \A j \in 1..(i - 1) : a[j] = b[j]

(* ------------------------------ the table ----------------------------- *)
StoredIds(store) == {r.id : r \in store}

RowOf(store, id) == CHOOSE r \in store : r.id = id

\* Variant: the first token is used without the SELECT loop.
UniqueShareIdUnchecked(store, first, later) == first

\* generate_share_id() called until the SELECT finds no row: `first` is the first
\* token drawn, `later` the first token drawn that is not stored (`first` itself when
\* the loop ends at once).
UniqueShareId(store, first, later) ==
    IF first \in StoredIds(store) THEN later ELSE first

\* Variant: expiry_hours = 0 is taken as "expires now" (>= in place of the truth test).
ExpiresAtZeroExpires(hours, t, offset) ==
    IF hours # NULL /\ hours[1] >= 0
    THEN IsoFormat(LocalNow(t, offset) + hours[1])
    ELSE NULL

\* create_shared_date: expires_at
ExpiresAt(hours, t, offset) ==
    IF hours # NULL /\ hours[1] # 0 /\ hours[1] > 0
    THEN IsoFormat(LocalNow(t, offset) + hours[1])
    ELSE NULL

\* create_shared_date: title
TitleOf(req) ==
    IF req.title # NULL /\ req.title[1] # ""
    THEN req.title
    ELSE <<req.event_type, "in", req.location>>
            \o (IF req.date_location # NULL /\ req.date_location[1] # req.location
                THEN <<"&">> \o req.date_location ELSE <<>>)

\* The row INSERT writes; created_at and view_count take the column defaults.
NewRow(id, req, hours, t, offset) ==
    [id |-> id, title |-> TitleOf(req), activities |-> req.activities,
     location |-> req.location, date_location |-> req.date_location,
     budget |-> req.budget, event_type |-> req.event_type, vibes |-> req.vibes,
     created_at |-> CurrentTimestamp(t),
     expires_at |-> ExpiresAt(hours, t, offset),
     view_count |-> 0]

\* id TEXT PRIMARY KEY: an INSERT of a stored id raises sqlite3.IntegrityError.
InsertAccepted(store, row) == row.id \notin StoredIds(store)

InsertRow(store, row) == IF InsertAccepted(store, row) THEN store \cup {row} ELSE store

\* get_shared_date_plan: the SELECT ... WHERE id = ? AND (expires_at IS NULL OR
\* expires_at > CURRENT_TIMESTAMP); the result is <<>> (None) or <<row>>.
GetSharedDatePlan(store, id, t) ==
    IF \E r \in store :
           /\ r.id = id
           /\ (r.expires_at = NULL \/ TextGreater(r.expires_at, CurrentTimestamp(t)))
    THEN <<RowOf(store, id)>>
    ELSE <<>>

\* Variant: the UPDATE without its WHERE clause.
IncrementViewCountEveryRow(store, id) ==
    {[r EXCEPT !.view_count = @ + 1] : r \in store}

\* Variant: a view also lifts the plan's expiry.
IncrementViewCountKeepAlive(store, id) ==
    {IF r.id = id THEN [r EXCEPT !.view_count = @ + 1, !.expires_at = NULL] ELSE r :
        r \in store}

\* increment_view_count: UPDATE ... SET view_count = view_count + 1 WHERE id = ?
IncrementViewCount(store, id) ==
    {IF r.id = id THEN [r EXCEPT !.view_count = @ + 1] ELSE r : r \in store}

\* The views counted so far, all rows together.
RECURSIVE TotalViews(_)
TotalViews(store) ==
    IF store = {} THEN 0
    ELSE LET r == CHOOSE x \in store : TRUE IN r.view_count + TotalViews(store \ {r})

(* ------------------------------ responses ----------------------------- *)
\* What a handler answered: `plan` is what its get_shared_date_plan call returned,
\* `detail` names the body it sent.
Response(op, id, status, detail, plan) ==
    [op |-> op, id |-> id, status |-> status, detail |-> detail, plan |-> plan,
     req |-> <<>>, collided |-> FALSE]

NoResponse == Response("none", 0, 0, "", <<>>)

\* GET /api/shared/{share_id}
GetSharedDateResponse(store, id, t) ==
    LET plan == GetSharedDatePlan(store, id, t) IN
    IF plan = <<>>
    THEN Response("get_shared", id, 404, "Date plan not found or expired", <<>>)
    ELSE Response("get_shared", id, 200, "success", plan)

\* GET /shared/{share_id}; ui: whether static/enhanced-ui.html exists
ViewSharedDateResponse(store, id, t, ui) ==
    LET plan == GetSharedDatePlan(store, id, t) IN
    IF plan = <<>>
    THEN Response("view_shared", id, 404, "Date Plan Not Found", <<>>)
    ELSE IF ui
         THEN Response("view_shared", id, 200, "page", plan)
         ELSE Response("view_shared", id, 200, "Date Plan Viewer", plan)

\* GET /api/og-image/{share_id}: the HTTPException(404) raised for a missing plan is
\* caught by the handler's own `except Exception`, which answers the default image.
GenerateOgImageResponse(store, id, t) ==
    LET plan == GetSharedDatePlan(store, id, t) IN
    IF plan = <<>>
    THEN Response("og_image", id, 200, "default svg", <<>>)
    ELSE Response("og_image", id, 200, "plan svg", plan)

(* ----------------------- geographic utilities ------------------------ *)
(* A coordinate is <<lat, lng>> in thousandths of a degree; a distance is  *)
(* in whole meters.  All coordinates considered lie on one meridian, where *)
(* the haversine formula reduces to R * |lat2 - lat1| (in radians) and the *)
(* spherical midpoint to the mean latitude.                                *)

\* generate_date's fallback coordinate: 35.0526, -78.8783 (Fayetteville, NC)
DefaultLocation == <<35053, -78878>>

\* Latitudes north of the default one: the distances between them fall on both
\* sides of 8, 32, 80, 200 and 1000 km; from 47.173 N and from the default location
\* Los Angeles is almost, and not quite, equally far.
LatOffsets == {0, 5, 71, 72, 287, 288, 500, 719, 720, 1000, 1500, 1798, 1799,
               4000, 8993, 8994, 12120, 18000}

Points == {<<DefaultLocation[1] + o, DefaultLocation[2]>> : o \in LatOffsets}

\* The element of a one-element set: Only({e(x) : x \in {v}}) is e(v) with v
\* computed once, as a local variable of the code is.
Only(S) == CHOOSE x \in S : TRUE

Abs(x) == IF x < 0 THEN -x ELSE x
Min(a, b) == IF a < b THEN a ELSE b
Max(a, b) == IF a > b THEN a ELSE b

\* cos of a latitude given in thousandths of a degree, in thousandths: the series
\* 1 - x^2/2 + x^4/24 - x^6/720 (x2 is x^2, in thousandths).
CosPermille(lat) ==
    LET x == (Abs(lat) * 17453) \div 1000000
        x2 == (x * x) \div 1000
    IN 1000 - x2 \div 2 + (x2 * x2) \div 24000 - (((x2 * x2) \div 1000) * x2) \div 720000

\* The largest r in lo..hi with r * r <= n.
RECURSIVE SqrtBetween(_, _, _)
SqrtBetween(lo, hi, n) ==
    IF lo >= hi THEN lo
    ELSE LET mid == (lo + hi + 1) \div 2 IN
         IF mid * mid <= n THEN SqrtBetween(mid, hi, n) ELSE SqrtBetween(lo, mid - 1, n)

\* haversine_distance, r = 6371 km: 6371000 * pi / 180000 = 111.194927 m per
\* thousandth of a degree of latitude.  Two coordinates on one meridian are
\* R * |lat2 - lat1| apart.  Between meridians a few hundredths of a degree apart (an
\* activity's template location lies 0.005 degrees east of the one before) the
\* formula is, to a few meters, sqrt(ns^2 + cos(lat1) cos(lat2) (R dlon)^2).
HaversineDistance(coord1, coord2) ==
    LET dlat == Abs(coord2[1] - coord1[1])
        ns == (dlat * 111194 + (dlat * 927) \div 1000) \div 1000
        ew0 == (Abs(coord2[2] - coord1[2]) * 111195) \div 1000
        ew2 == ((ew0 * CosPermille(coord1[1])) \div 1000)
                  * ((ew0 * CosPermille(coord2[1])) \div 1000)
    IN IF coord1[2] = coord2[2] THEN ns
       ELSE IF ns >= 20000 THEN ns + ew2 \div (2 * ns)
       ELSE SqrtBetween(0, 21000, ns * ns + ew2)

\* calculate_midpoint_and_radius: midpoint
Midpoint(location1, location2) ==
    <<(location1[1] + location2[1]) \div 2, location1[2]>>

\* Variant: the second band's upper limit typed as 30 km.
SmartRadiusShortBand(distance) ==
    IF distance < 8000 THEN Min(4800, (distance * 6) \div 10)
    ELSE IF distance < 30000 THEN Min(16000, (distance * 4) \div 10)
    ELSE IF distance < 80000 THEN Min(24000, (distance * 3) \div 10)
    ELSE Min(40000, (distance * 2) \div 10)

\* calculate_midpoint_and_radius: "Smart radius", int(min(cap, distance * factor))
SmartRadius(distance) ==
    IF distance < 8000 THEN Min(4800, (distance * 6) \div 10)
    ELSE IF distance < 32000 THEN Min(16000, (distance * 4) \div 10)
    ELSE IF distance < 80000 THEN Min(24000, (distance * 3) \div 10)
    ELSE Min(40000, (distance * 2) \div 10)

\* Variant: the limit mistyped as 10000 km.
CalculateMidpointAndRadiusWideLimit(location1, location2) ==
    LET distance == HaversineDistance(location1, location2) IN
    IF distance > 10000000
    THEN [done |-> TRUE, raised |-> TRUE, midpoint |-> <<>>, radius |-> 0,
          distance |-> distance]
    ELSE [done |-> TRUE, raised |-> FALSE, midpoint |-> Midpoint(location1, location2),
          radius |-> SmartRadius(distance), distance |-> distance]

\* calculate_midpoint_and_radius as the module binds it: the definition at line 381
\* replaces the one at line 116 when the module is loaded.  raised: ValueError.
CalculateMidpointAndRadius(location1, location2) ==
    LET distance == HaversineDistance(location1, location2) IN
    IF distance > 1000000
    THEN [done |-> TRUE, raised |-> TRUE, midpoint |-> <<>>, radius |-> 0,
          distance |-> distance]
    ELSE [done |-> TRUE, raised |-> FALSE, midpoint |-> Midpoint(location1, location2),
          radius |-> SmartRadius(distance), distance |-> distance]

NoCalc == [done |-> FALSE, raised |-> FALSE, midpoint |-> <<>>, radius |-> 0,
           distance |-> 0]

(* --------------------------- generate_activities ---------------------- *)
(* A title is a sequence of strings, so that "prefix" + title is a         *)
(* concatenation; a duration is in tenths of an hour.                      *)

\* The decoration put before the first title for the "romantic" vibe (a rose and a
\* space), and the titles that replace the third and the second one.
RomanticPrefix == "(rose) "
AdventureTitle == <<"(target) Adventure Activity">>
CulturalTitle == <<"(palette) Cultural Experience">>

Template(time, activity, type, duration) ==
    [time |-> time, activity |-> <<activity>>, type |-> type, duration |-> duration]

\* generate_activities: base_activities, built anew by every call
BaseActivities ==
    [first_date |->
        <<Template("6:00 PM", "Coffee & Conversation", "cafe", 15),
          Template("7:30 PM", "Mini Golf Fun", "entertainment", 15),
          Template("9:00 PM", "Dessert & Walk", "restaurant", 10)>>,
     casual_dating |->
        <<Template("2:00 PM", "Lunch Together", "restaurant", 15),
          Template("3:30 PM", "Activity Time", "entertainment", 20),
          Template("5:30 PM", "Drinks & Appetizers", "bar", 15),
          Template("7:00 PM", "Live Entertainment", "entertainment", 20)>>,
     married_date |->
        <<Template("5:00 PM", "Couples Spa", "spa", 20),
          Template("7:00 PM", "Fine Dining", "restaurant", 20),
          Template("9:00 PM", "Dancing & Drinks", "night_club", 20)>>,
     friends_night |->
        <<Template("6:00 PM", "Group Activity", "bowling_alley", 20),
          Template("8:00 PM", "Dinner & Drinks", "bar", 20),
          Template("10:00 PM", "Late Night Fun", "night_club", 20)>>,
     family_outing |->
        <<Template("11:00 AM", "Family Activity", "museum", 20),
          Template("1:00 PM", "Lunch Together", "restaurant", 15),
          Template("2:30 PM", "Outdoor Fun", "park", 20),
          Template("4:30 PM", "Treats & Relaxation", "cafe", 10)>>]

\* base_activities.get(event_type, base_activities["casual_dating"])
TemplateOf(event_type) ==
    IF event_type \in DOMAIN BaseActivities
    THEN BaseActivities[event_type]
    ELSE BaseActivities["casual_dating"]

\* x in list
InList(x, list) == \E i \in 1..Len(list) : list[i] = x

\* int(a / b) for b > 0: the quotient cut towards zero
IntQuotient(a, b) == IF a >= 0 THEN a \div b ELSE -((-a) \div b)

\* Budgets and list lengths for which the float product budget / n * 1.2 falls just
\* below the integer it would be exactly (35 / 3 * 1.2 = 13.999999999999998).
InexactProducts == {<<35, 3>>}

\* int(cost_per_activity * (1.2 if i == 1 else 1)), i counted from 1 here
ActivityCost(budget, n, i) ==
    IF i = 2
    THEN IntQuotient(budget * 12, n * 10)
            - (IF <<budget, n>> \in InexactProducts THEN 1 ELSE 0)
    ELSE IntQuotient(budget, n)

\* Variant: the list cut to time_available // 2 entries, without the minimum of one.
MaxActivitiesUnguarded(time_available) == time_available \div 2

\* max_activities = max(1, time_available // 2)
MaxActivities(time_available) == Max(1, time_available \div 2)

\* activities[:max_activities]
Prefix(list, n) == SubSeq(list, 1, Min(Len(list), Max(0, n)))

\* generate_activities.  time_available is <<>> (None) or <<hours>>; with None the
\* floor division raises TypeError.  The result: raised, or the list.
GenerateActivities(event_type, budget, vibes, location, time_available) ==
    LET base == TemplateOf(event_type)
        n == Len(base)
        romantic == IF InList("romantic", vibes)
                    THEN [base EXCEPT ![1].activity = <<RomanticPrefix>> \o @]
                    ELSE base
        adventurous == IF InList("adventurous", vibes) /\ n > 2
                       THEN [romantic EXCEPT ![3].type = "tourist_attraction",
                                             ![3].activity = AdventureTitle]
                       ELSE romantic
        cultural == IF InList("cultural", vibes) /\ n > 1
                    THEN [adventurous EXCEPT ![2].type = "art_gallery",
                                             ![2].activity = CulturalTitle]
                    ELSE adventurous
        priced == [i \in 1..n |->
                     [time |-> cultural[i].time, activity |-> cultural[i].activity,
                      type |-> cultural[i].type, duration |-> cultural[i].duration,
                      estimated_cost |-> Min(ActivityCost(budget, n, i), budget \div 2),
                      location |-> <<location[1] + (i - 1) * 5,
                                     location[2] + (i - 1) * 5>>]]
    IN IF time_available = NULL
       THEN [raised |-> TRUE, list |-> <<>>]
       ELSE [raised |-> FALSE, list |-> Prefix(priced, MaxActivities(time_available[1]))]

(* ------------------------ destination cities ------------------------- *)
\* DESTINATION_CITIES, in the order of the list.
DestinationCities ==
    <<"New York, NY", "Los Angeles, CA", "Chicago, IL", "Miami, FL", "Las Vegas, NV",
    "San Francisco, CA", "Seattle, WA", "Nashville, TN", "Austin, TX", "Denver, CO",
    "Boston, MA", "Atlanta, GA", "Phoenix, AZ", "Portland, OR", "San Diego, CA",
    "Washington, DC", "Philadelphia, PA", "New Orleans, LA", "Charleston, SC",
    "Savannah, GA">>

\* haversine_distance(coord, city_coord) for the latitudes considered (on the meridian
\* of the default location) and each city of the list, in decimeters.
CityDistanceTable ==
    (35053 :>
          <<7605482, 35832449, 10742985, 10407655, 32612720, 38729076, 38283692, 7248745,
          18411225, 23558640, 10575454, 5258264, 30422861, 38402624, 35218955, 4586801,
          6355255, 11920991, 2711417, 3890742>>)
    @@ (35058 :>
          <<7600805, 35831505, 10738884, 10413170, 32611480, 38727399, 38280511, 7247583,
          18412333, 23556690, 10571042, 5259653, 30422255, 38399745, 35218287, 4581588,
          6350436, 11923367, 2716598, 3895429>>)
    @@ (35124 :>
          <<7539182, 35819125, 10684870, 10485969, 32595188, 38705312, 38238571, 7232625,
          18427114, 23531057, 10512907, 5278497, 30414331, 38361795, 35209541, 4512857,
          6286936, 11954925, 2785122, 3957509>>)
    @@ (35125 :>
          <<7538250, 35818939, 10684054, 10487072, 32594942, 38704978, 38237937, 7232404,
          18427340, 23530670, 10512027, 5278789, 30414212, 38361221, 35209410, 4511817,
          6285976, 11955406, 2786162, 3958453>>)
    @@ (35340 :>
          <<7339013, 35779522, 10509725, 10724277, 32542871, 38633802, 38101897, 7188673,
          18477387, 23448512, 10323992, 5346735, 30389528, 38238227, 35181864, 4288998,
          6080671, 12060721, 3010984, 4163250>>)
    @@ (35341 :>
          <<7338092, 35779342, 10508920, 10725381, 32542633, 38633474, 38101266, 7188487,
          18477626, 23448135, 10323123, 5347074, 30389417, 38237657, 35181739, 4287966,
          6079722, 12061219, 3012034, 4164211>>)
    @@ (35553 :>
          <<7144028, 35741840, 10339548, 10959355, 32492791, 38564452, 37968004, 7152935,
          18529795, 23369149, 10139808, 5423587, 30366768, 38117330, 35155992, 4070068,
          5879785, 12168745, 3235727, 4369572>>)
    @@ (35772 :>
          <<6946254, 35704523, 10167335, 11201132, 32442869, 38494364, 37831263, 7124185,
          18586587, 23289678, 9952737, 5512083, 30345129, 37994026, 35130866, 3847180,
          5676123, 12283538, 3468480, 4584779>>)
    @@ (35773 :>
          <<6945357, 35704356, 10166555, 11202236, 32442645, 38494046, 37830641, 7124072,
          18586853, 23289320, 9951889, 5512508, 30345035, 37993466, 35130754, 3846168,
          5675201, 12284071, 3469546, 4585768>>)
    @@ (36053 :>
          <<6696886, 35658765, 9950694, 11511463, 32381158, 38406248, 37657198, 7099319,
          18663734, 23190904, 9716341, 5638985, 30319989, 37837314, 35100821, 3565143,
          5419610, 12436196, 3769117, 4864817>>)
    @@ (36553 :>
          <<6267119, 35583275, 9578200, 12063922, 32277909, 38254545, 37351399, 7088852,
          18812715, 23024166, 9306717, 5898975, 30282569, 37562695, 35053478, 3077845,
          4978974, 12722103, 4308216, 5371937>>)
    @@ (36851 :>
          <<6020780, 35541912, 9364781, 12393336, 32220394, 38167255, 37171576, 7103248,
          18908516, 22930368, 9069940, 6072821, 30264732, 37401640, 35028999, 2799602,
          4727907, 12900779, 4631415, 5678524>>)
    @@ (36852 :>
          <<6019967, 35541777, 9364077, 12394441, 32220206, 38166966, 37170975, 7103322,
          18908846, 22930060, 9069155, 6073426, 30264678, 37401102, 35028922, 2798688,
          4727081, 12901389, 4632501, 5679557>>)
    @@ (39053 :>
          <<4547490, 35321163, 8037609, 14830115, 31890056, 37596221, 35901959, 7664482,
          19770127, 22371493, 7542894, 7684407, 30236764, 36274829, 34935142, 1599637,
          3338539, 14387523, 7043126, 8005245>>)
    @@ (44046 :>
          <<5452661, 35382237, 7514026, 20365743, 31774817, 36806873, 33457343, 11035042,
          22575200, 22038884, 6606086, 12395389, 30845709, 34177133, 35290903, 5915912,
          5487746, 18519829, 12564347, 13441692>>)
    @@ (44047 :>
          <<5453392, 35382328, 7514327, 20366853, 31774883, 36806788, 33456920, 11035893,
          22575860, 22038951, 6606351, 12396401, 30845922, 34176783, 35291052, 5916983,
          5488654, 18520729, 12565456, 13442790>>)
    @@ (47173 :>
          <<8170159, 35815185, 9089584, 23836351, 32152768, 36685209, 32281228, 13874766,
          24790468, 22507733, 8162564, 15627397, 31681976, 33228675, 35906413, 9311384,
          8565290, 21429792, 16032897, 16884399>>)
    @@ (53053 :>
          <<14204061, 37407358, 14036079, 30366309, 33751923, 37243363, 30935039,
          19766905, 29589512, 24672280, 13233016, 21905766, 34095607, 32306127, 37820604,
          15792235, 14836363, 27251963, 22562127, 23385083>>)

CityDistance(coord, c) == CityDistanceTable[coord[1]][c]

\* round(x, 1) of a distance in km held in decimeters; the result is in tenths of a km.
RoundTenth(x) == (x + 500) \div 1000

\* Long division: q the quotient so far, r the remainder, `digits` more decimal places
\* to produce (no intermediate value exceeds ten times the divisor).
RECURSIVE LongDivision(_, _, _, _)
LongDivision(q, r, c, digits) ==
    IF digits = 0 THEN q
    ELSE LongDivision(q * 10 + (r * 10) \div c, (r * 10) % c, c, digits - 1)

\* The float quotient a / c with `digits` decimal places, as an integer.
Quotient(a, c, digits) == LongDivision(a \div c, a % c, c, digits)

\* One entry of find_destination_cities' list, for city number c at dist1 and dist2
\* (decimeters) from the two people.  The distances are in tenths of a km,
\* fairness_score is in tenths, score in hundredths.
Suggestion(c, dist1, dist2) ==
    LET total_dist == dist1 + dist2
        diff == Abs(dist1 - dist2)
        mx == Max(dist1, dist2)
        \* fairness * 100 = 100 * diff / mx, in units of 1e-6
        penalty == Quotient(diff, mx, 8)
        \* 1000 / total_dist (km), in units of 1e-6
        nearness == Quotient(10000000, total_dist, 6)
    IN [city |-> c, name |-> DestinationCities[c],
        distance_person1 |-> RoundTenth(dist1),
        distance_person2 |-> RoundTenth(dist2),
        total_distance |-> RoundTenth(total_dist),
        fairness_score |-> (Quotient(mx - diff, mx, 4) + 5) \div 10,
        score |-> (nearness - penalty + 5000) \div 10000]

\* Variant: the list sorted without reverse=True.
InsertAscending(list, s) ==
    LET k == Cardinality({i \in 1..Len(list) : list[i].score <= s.score}) IN
    SubSeq(list, 1, k) \o <<s>> \o SubSeq(list, k + 1, Len(list))

\* list.sort(key = score, reverse = True), one entry at a time: s goes behind the
\* entries of the sorted list whose score is not lower (the sort is stable).
InsertDescending(list, s) ==
    LET k == Cardinality({i \in 1..Len(list) : list[i].score >= s.score}) IN
    SubSeq(list, 1, k) \o <<s>> \o SubSeq(list, k + 1, Len(list))

\* find_destination_cities: the entries of the first n cities, sorted.
RECURSIVE SortedSuggestions(_, _, _)
SortedSuggestions(location1, location2, n) ==
    IF n = 0 THEN <<>>
    ELSE Only({InsertDescending(list, s) :
                  list \in {SortedSuggestions(location1, location2, n - 1)},
                  s \in {Suggestion(n, CityDistance(location1, n),
                                    CityDistance(location2, n))}})

\* find_destination_cities (the definition at line 442, which replaces the one at
\* line 188): every city scored, the list sorted by descending score, the first
\* `count` entries returned.
FindDestinationCities(location1, location2, count) ==
    LET sorted == SortedSuggestions(location1, location2, Len(DestinationCities)) IN
    SubSeq(sorted, 1, Min(count, Len(sorted)))

\* find_destination_cities(..., count: int = 5)
DefaultCount == 5

\* What gmaps.geocode does for one address: a result, an empty list, an exception.
GeocodeOutcomes == {"ok", "empty", "error"}

NoGen ==
    [done |-> FALSE, gmaps |-> FALSE, geocode1 |-> "empty", date_location |-> FALSE,
     geocode2 |-> "empty", status |-> 0, long_distance |-> FALSE,
     destination_suggestions |-> FALSE, destinations |-> <<>>,
     two_location |-> FALSE,
     center |-> <<>>, search_radius |-> 0, distance_info |-> <<>>,
     activities |-> FALSE, searched |-> FALSE, activity_list |-> <<>>]

\* round(100 - abs(a - b) / max(a, b) * 100, 1) and round(min / max * 100, 1), in
\* tenths, for two distances that are not both zero.
FairnessScore(a, b) ==
    (Quotient(Min(a, b), Max(a, b), 4) + 5) \div 10

\* generate_date up to the call of generate_activities: the two geocodings, the
\* distance gate, the midpoint and distance_info.
\* gmaps: the client exists; geocode1, geocode2: what geocoding the two addresses
\* does; date_location: the request names a non-blank second address; p1, p2: the
\* coordinates the two addresses geocode to.
\* exact: for identical points, whether the midpoint's conversion to Cartesian
\* coordinates and back returns the very same floating-point numbers (it does for
\* 35.053, -78.878 and does not for 35.0526, -78.8783; otherwise the midpoint is a
\* few 1e-15 degrees off and its distance to the points is positive, the same to
\* both).
\* status 500: an exception leaves the handler.  activities: generate_activities is
\* called; searched: enhance_with_real_places runs, around `center` with
\* `search_radius`.
GenerateDateLocations(gmaps, geocode1, date_location, geocode2, p1, p2, exact) ==
    LET l1 == IF gmaps /\ geocode1 = "ok" THEN p1 ELSE DefaultLocation
        single == [NoGen EXCEPT !.done = TRUE, !.gmaps = gmaps, !.geocode1 = geocode1,
                                !.date_location = date_location, !.geocode2 = geocode2,
                                !.status = 200, !.center = l1, !.search_radius = 8000,
                                !.activities = TRUE, !.searched = gmaps]
    IN
    IF ~(date_location /\ gmaps /\ geocode2 = "ok")
    THEN single
    ELSE LET distance == HaversineDistance(l1, p2) IN
         IF distance > 1000000
         THEN [single EXCEPT !.long_distance = TRUE, !.two_location = TRUE,
                             !.destination_suggestions = TRUE,
                             !.destinations =
                                 FindDestinationCities(l1, p2, DefaultCount),
                             !.center = <<>>,
                             !.search_radius = 0, !.activities = FALSE,
                             !.searched = FALSE]
         ELSE LET r == CalculateMidpointAndRadius(l1, p2) IN
              IF r.raised
              THEN single
              ELSE LET to1 == HaversineDistance(r.midpoint, l1)
                       to2 == HaversineDistance(r.midpoint, p2)
                       two == [single EXCEPT !.two_location = TRUE,
                                             !.center = r.midpoint,
                                             !.search_radius = r.radius]
                   IN
                   IF Max(to1, to2) = 0 /\ exact
                   THEN \* ZeroDivisionError in the fairness score, caught by the outer
                        \* `except Exception`; distance_info stays None and the final
                        \* message's distance_info[...] raises TypeError.
                        [two EXCEPT !.status = 500]
                   ELSE [two EXCEPT !.distance_info =
                            <<[total_distance |-> r.distance, person1_travel |-> to1,
                               person2_travel |-> to2,
                               fairness_score |-> IF Max(to1, to2) = 0 THEN 1000
                                                  ELSE FairnessScore(to1, to2),
                               search_radius |-> r.radius]>>]

\* What the Places lookups of enhance_with_real_places find, activity by activity:
\* <<>> (no result, or an exception) or <<place>>.
NoPlaces == <<NULL, NULL, NULL, NULL>>

SomePlaces ==
    <<<<[place_id |-> "a", location |-> DefaultLocation, price_level |-> 2]>>,
      NULL,
      <<[place_id |-> "b", location |-> <<DefaultLocation[1] + 72, DefaultLocation[2]>>,
         price_level |-> 4]>>,
      NULL>>

PlaceResults == {NoPlaces, SomePlaces}

\* enhance_with_real_places: an activity for which a place is found takes the place's
\* id, price level and coordinates and a cost of 20 + price_level * 20; the others
\* are left as they are.
EnhanceWithRealPlaces(list, places) ==
    [i \in 1..Len(list) |->
        IF places[i] = NULL THEN list[i]
        ELSE LET place == places[i][1] IN
             [place_id |-> place.place_id, price_level |-> place.price_level,
              location |-> place.location,
              estimated_cost |-> 20 + place.price_level * 20] @@ list[i]]

\* round(d, 1) and round(d * 0.621371, 1) of a distance in km held in meters, in tenths.
TravelKm(d) == (d + 50) \div 100
TravelMi(d) == ((d * 621 + (d * 371) \div 1000) \div 1000 + 50) \div 100

\* generate_date: "Add travel information for two-location mode", one activity
AddTravel(activity, l1, l2) ==
    LET distance1 == HaversineDistance(l1, activity.location)
        distance2 == HaversineDistance(l2, activity.location)
    IN [travel_person1 |-> [distance_km |-> TravelKm(distance1),
                            distance_mi |-> TravelMi(distance1)],
        travel_person2 |-> [distance_km |-> TravelKm(distance2),
                            distance_mi |-> TravelMi(distance2)],
        fairness_score |-> IF Max(distance1, distance2) > 0
                           THEN FairnessScore(distance1, distance2)
                           ELSE 1000] @@ activity

\* generate_date, the whole handler.  req: event_type, budget, vibes and
\* time_available of the request; places: what the Places lookups find.
GenerateDateResponse(gmaps, geocode1, date_location, geocode2, p1, p2, exact, req, places) ==
    LET l1 == IF gmaps /\ geocode1 = "ok" THEN p1 ELSE DefaultLocation
        Enhanced(made) == IF gmaps THEN EnhanceWithRealPlaces(made.list, places)
                          ELSE made.list
        Travelled(g, enhanced) ==
            IF g.two_location
            THEN [i \in 1..Len(enhanced) |-> AddTravel(enhanced[i], l1, p2)]
            ELSE enhanced
        Activities(g) ==
            Only({Only({IF made.raised
                        THEN [g EXCEPT !.status = 500, !.searched = FALSE]
                        ELSE IF g.status = 500 THEN g
                        ELSE [g EXCEPT !.activity_list = Travelled(g, enhanced)] :
                            enhanced \in {Enhanced(made)}}) :
                     made \in {GenerateActivities(req.event_type, req.budget, req.vibes,
                                                  g.center, req.time_available)}})
    IN Only({IF g.long_distance THEN g ELSE Activities(g) :
                g \in {GenerateDateLocations(gmaps, geocode1, date_location, geocode2,
                                             p1, p2, exact)}})

\* DateRequest: event_type, budget, vibes and time_available (Optional[int] = 4: an
\* explicit null is None) as generate_date passes them on.
EventTypes == {"first_date", "casual_dating", "married_date", "friends_night",
               "family_outing", "picnic"}
Budgets == {-7, 0, 1, 35, 100}
VibeLists == {<<>>, <<"romantic">>, <<"adventurous">>, <<"cultural", "romantic">>,
              <<"adventurous", "cultural">>, <<"fun">>}
TimesAvailable == {NULL} \cup {<<t>> : t \in {-3, 0, 1, 2, 4, 5, 7, 9}}

ActivityRequests ==
    [event_type : EventTypes, budget : Budgets, vibes : VibeLists,
     time_available : TimesAvailable]

\* The requests POST /api/generate-date is followed with.
DateRequests ==
    {[event_type |-> "casual_dating", budget |-> 100, vibes |-> <<"romantic">>,
      time_available |-> <<4>>],
     [event_type |-> "first_date", budget |-> 35, vibes |-> <<>>,
      time_available |-> <<9>>],
     [event_type |-> "friends_night", budget |-> 0,
      vibes |-> <<"adventurous", "cultural">>, time_available |-> NULL]}

NoActs == [done |-> FALSE, result |-> [raised |-> FALSE, list |-> <<>>]]

NoLocals == [op |-> "none", id |-> 0, row |-> <<>>, status |-> 0]

(* ---------- generate_date_ideas (utilities/openai_tools.py) ----------- *)
\* A text is [lines |-> the sequence of its newline-terminated lines], so that the
\* empty string differs from None (NoContent).  A line is what the function's patterns
\* see in it:
\*   kind "title"     "## Event Idea: <title>"
\*   kind "date_title" "## Date Idea: <title>", which title_pattern does not match
\*   kind "timeline"  the heading "### Timeline:"
\*   kind "heading"   any other "###" heading
\*   kind "entry"     a "- " line of a timeline; places: what place_patterns find in it
\*   kind "text"      any other line that is not blank ("## Date Idea: ..." included)
\*   kind "space"     a whitespace-only line
Text(lines) == [none |-> FALSE, lines |-> lines]
NoContent == [none |-> TRUE, lines |-> <<>>]
Line(kind) == [kind |-> kind, title |-> "", places |-> <<>>]
TitleLine(title) == [kind |-> "title", title |-> title, places |-> <<>>]
DateTitleLine(title) == [kind |-> "date_title", title |-> title, places |-> <<>>]
EntryLine(places) == [kind |-> "entry", title |-> "", places |-> places]

\* len(place_name) and place_name.lower() of the candidate names used.
NameLength(name) ==
    CASE name = "Pike Place Market" -> 17
      [] name = "Kerry Park" -> 10
      [] name = "kerry park" -> 10
      [] name = "Downtown" -> 8
      [] name = "Home" -> 4
      [] name = "zoo" -> 3

Lower(name) ==
    CASE name = "Pike Place Market" -> "pike place market"
      [] name = "Kerry Park" -> "kerry park"
      [] name = "kerry park" -> "kerry park"
      [] name = "Downtown" -> "downtown"
      [] name = "Home" -> "home"
      [] name = "zoo" -> "zoo"

StopWords == {"this", "that", "then", "there", "home", "free", "lunch", "dinner"}

\* The three narrative blocks of the failure paths and a successful narrative share
\* one shape: a block has a heading and a detail, a narrative has lines.
Block(heading, detail) == [heading |-> heading, detail |-> detail, lines |-> <<>>]
Narrative(lines) == [heading |-> "", detail |-> "", lines |-> lines]
NotAvailableBlock == Block("Event Generator Feature Not Available", "")
NoIdeasBlock == Block("No event ideas were generated", "")
ErrorBlock(e) == Block("Error Generating Event Ideas", e)

\* return error_message, "", "", []
Failure(block) ==
    [main |-> block, timeline |-> <<>>, map |-> <<>>, places |-> <<>>, raised |-> FALSE,
     error |-> "", provider_calls |-> <<>>, search_calls |-> <<>>, detail_calls |-> <<>>]

\* not content or content.strip() == ""
Blank(content) ==
    \/ content.none
    \/ \A i \in 1..Len(content.lines) : content.lines[i].kind = "space"

\* re.findall(r'### Timeline:(.*?)(?=###|$)', content, re.DOTALL): one capture per
\* "### Timeline:" heading, running to the next "###" or to the end of the text.
RECURSIVE Capture(_, _)
Capture(lines, i) ==
    IF i > Len(lines) \/ lines[i].kind \in {"timeline", "heading"} THEN <<>>
    ELSE <<lines[i]>> \o Capture(lines, i + 1)

RECURSIVE FindTimelines(_, _)
FindTimelines(lines, i) ==
    IF i > Len(lines) THEN <<>>
    ELSE IF lines[i].kind = "timeline"
         THEN <<Capture(lines, i + 1)>> \o FindTimelines(lines, i + 1)
         ELSE FindTimelines(lines, i + 1)

\* re.sub(timeline_pattern, '', content), without re.DOTALL: '.' stops at the end of
\* the heading's line, where the lookahead finds neither "###" nor the end of the
\* text unless the heading is the last line.
RemoveTimelines(lines) ==
    IF Len(lines) > 0 /\ lines[Len(lines)].kind = "timeline"
    THEN SubSeq(lines, 1, Len(lines) - 1)
    ELSE lines

\* re.findall(r'## Event Idea: (.*?)[\r\n]', content)
FindTitles(lines) ==
    LET found == SelectSeq(lines, LAMBDA l : l.kind = "title")
    IN [i \in 1..Len(found) |-> [name |-> found[i].title, ordinal |-> 0]]

\* all_matches of one timeline, listed line by line.
RECURSIVE AllMatches(_)
AllMatches(timeline) ==
    IF timeline = <<>> THEN <<>>
    ELSE Head(timeline).places \o AllMatches(Tail(timeline))

InSeq(x, s) == \E i \in 1..Len(s) : s[i] = x

\* The filter on the candidate names of one timeline: st.place_names is the list of
\* names kept so far over all timelines, st.current those of this timeline.
RECURSIVE KeepPlaces(_, _)
KeepPlaces(matches, st) ==
    IF matches = <<>> THEN st
    ELSE LET place_name == Head(matches)
         IN IF /\ NameLength(place_name) > 3
               /\ Lower(place_name) \notin StopWords
               /\ ~InSeq(place_name, st.place_names)
            THEN KeepPlaces(Tail(matches),
                            [place_names |-> Append(st.place_names, place_name),
                             current |-> Append(st.current, place_name)])
            ELSE KeepPlaces(Tail(matches), st)

\* The loop over timeline_matches inside "if location:": place_names and
\* timeline_places.
RECURSIVE ExtractPlaces(_, _)
ExtractPlaces(timelines, acc) ==
    IF timelines = <<>> THEN acc
    ELSE LET st == KeepPlaces(AllMatches(Head(timelines)),
                              [place_names |-> acc.place_names, current |-> <<>>])
         IN ExtractPlaces(Tail(timelines),
                          [place_names |-> st.place_names,
                           timeline_places |-> Append(acc.timeline_places, st.current)])

\* The Place Data Gateway as one call of generate_date_ideas sees it: search maps a
\* query to the place ids of search_places' results, in result order; details is
\* the set of place ids for which get_place_details returns details.  A query is
\* the improved query of the enhancement answer for a place name ("improved"),
\* "<place name> in <location>" ("in_location"), the bare place name ("name") or a
\* venue-type word ("type").
Query(kind, text) == [kind |-> kind, text |-> text]

\* len(place_name.split()) > 1, and the venue-type words contained in
\* place_name.lower(), in the order of the code's list.
Multiword(place_name) == place_name \in {"Pike Place Market", "Kerry Park", "kerry park"}
TypeWordsIn(place_name) ==
    IF place_name \in {"Kerry Park", "kerry park"} THEN <<"park">> ELSE <<>>

\* The state of the search block: the place ids seen, place_info_by_name,
\* place_details_list, and the queries and detail fetches made.
NoSearch == [unique_place_ids |-> {}, place_info_by_name |-> <<>>,
             place_details_list |-> <<>>, search_calls |-> <<>>,
             detail_calls |-> <<>>]

\* The venue-type fallback: type word after type word until one has results.
RECURSIVE TypeSearch(_, _)
TypeSearch(words, gateway) ==
    IF words = <<>> THEN [results |-> <<>>, queries |-> <<>>]
    ELSE LET q == Query("type", Head(words))
             rest == TypeSearch(Tail(words), gateway)
         IN IF gateway.search[q] # <<>> THEN [results |-> gateway.search[q], queries |-> <<q>>]
            ELSE [results |-> rest.results, queries |-> <<q>> \o rest.queries]

\* search_results for one place name: the improved query when the enhancement
\* answer has one, else "<name> in <location>"; without results the bare name when
\* it has several words; still without results the venue-type words.
SearchResults(place_name, gateway, enhanced) ==
    LET q1 == Query(IF place_name \in enhanced THEN "improved" ELSE "in_location",
                    place_name)
        q2 == Query("name", place_name)
        first == gateway.search[q1]
        named == first = <<>> /\ Multiword(place_name)
        second == IF named THEN gateway.search[q2] ELSE first
        typed == IF second = <<>> THEN TypeSearch(TypeWordsIn(place_name), gateway)
                 ELSE [results |-> second, queries |-> <<>>]
    IN [results |-> typed.results,
        queries |-> <<q1>> \o (IF named THEN <<q2>> ELSE <<>>) \o typed.queries]

\* result = search_results[0] and the test "place_id in unique_place_ids": only the
\* top result is a candidate, and a place id seen before skips the name.
SearchTop(results, used) ==
    IF results = <<>> \/ results[1] \in used THEN <<>> ELSE <<results[1]>>

\* The loop "for place_name in place_names" of the search block.
RECURSIVE SearchPlaces(_, _, _, _)
SearchPlaces(place_names, gateway, enhanced, st) ==
    IF place_names = <<>> THEN st
    ELSE LET place_name == Head(place_names)
             found == SearchResults(place_name, gateway, enhanced)
             kept == SearchTop(found.results, st.unique_place_ids)
             asked == [st EXCEPT !.search_calls = @ \o found.queries]
         IN IF NameLength(place_name) <= 3
            THEN SearchPlaces(Tail(place_names), gateway, enhanced, st)
            ELSE IF kept = <<>>
            THEN SearchPlaces(Tail(place_names), gateway, enhanced, asked)
            ELSE LET place_id == kept[1]
                     place_details == [place_id |-> place_id, name |-> place_name]
                     seen == [asked EXCEPT !.unique_place_ids = @ \cup {place_id},
                                           !.detail_calls = Append(@, place_id)]
                 IN IF place_id \in gateway.details
                    THEN SearchPlaces(Tail(place_names), gateway, enhanced,
                             [seen EXCEPT
                                !.place_info_by_name =
                                    (Lower(place_name) :> place_details) @@ @,
                                !.place_details_list = Append(@, place_details)])
                    ELSE SearchPlaces(Tail(place_names), gateway, enhanced, seen)

\* create_map(place_details_list, location): the map's markers.
CreateMap(places, center_location) ==
    [i \in 1..Len(places) |-> places[i].place_id]

\* place_names.index(place_name)
RECURSIVE Index(_, _)
Index(x, s) == IF Head(s) = x THEN 0 ELSE 1 + Index(x, Tail(s))

\* processed_timeline.strip(): the lines without leading and trailing blank ones.
RECURSIVE Strip(_)
Strip(lines) ==
    IF lines = <<>> THEN <<>>
    ELSE IF Head(lines).kind = "space" THEN Strip(Tail(lines))
    ELSE IF lines[Len(lines)].kind = "space" THEN Strip(SubSeq(lines, 1, Len(lines) - 1))
    ELSE lines

\* One timeline item of the panel: the title and the timeline's lines, a place name
\* of this timeline that has place details rewritten as a clickable span with
\* data-place-id "place_<i>_<index in place_names>".
TimelineItemUnscoped(i, timeline, title, current_timeline_places, place_info_by_name, place_names) ==
    LET shown == Strip(timeline)
        Spans(line) ==
            {<<i, Index(place_names[k], place_names)>> :
                k \in {j \in 1..Len(place_names) :
                         /\ Lower(place_names[j]) \in DOMAIN place_info_by_name
                         /\ InSeq(place_names[j], line.places)}}
    IN [title |-> title,
        entries |-> [k \in 1..Len(shown) |->
                       [kind |-> shown[k].kind, clickable |-> Spans(shown[k])]]]

TimelineItem(i, timeline, title, current_timeline_places, place_info_by_name, place_names) ==
    LET shown == Strip(timeline)
        Spans(line) ==
            {<<i, Index(current_timeline_places[k], place_names)>> :
                k \in {j \in 1..Len(current_timeline_places) :
                         /\ Lower(current_timeline_places[j]) \in DOMAIN place_info_by_name
                         /\ InSeq(current_timeline_places[j], line.places)}}
    IN [title |-> title,
        entries |-> [k \in 1..Len(shown) |->
                       [kind |-> shown[k].kind, clickable |-> Spans(shown[k])]]]

\* The query-enhancement call, made when the search block is entered (the client is
\* configured there), and enhanced_queries: the place names the enhancement answer
\* gives an improved query for; none when the call raises, its exception caught.
EnhanceCallsAlways(searching) == <<"enhance">>

EnhanceCalls(searching) == IF searching THEN <<"enhance">> ELSE <<>>

EnhancedQueries(place_names, enhance) ==
    IF enhance = "answer" THEN {place_names[k] : k \in 1..Len(place_names)} ELSE {}

\* The statements of the try block after the blank check.  A local assigned only
\* under "if location:" (place_details_list, timeline_places) or only in the search
\* block (place_info_by_name) is unbound on the other paths: reading it raises
\* UnboundLocalError, whose text names the variable.
ParseAndRender(content, enhance, location, maps, gateway) ==
    LET timeline_matches == FindTimelines(content.lines, 1)
        located == location # ""
        extracted == IF located
                     THEN ExtractPlaces(timeline_matches,
                                        [place_names |-> <<>>, timeline_places |-> <<>>])
                     ELSE [place_names |-> <<>>, timeline_places |-> <<>>]
        place_names == extracted.place_names
        timeline_places == extracted.timeline_places
        searching == located /\ maps /\ place_names # <<>>
        searched == IF searching
                    THEN SearchPlaces(place_names, gateway,
                                      EnhancedQueries(place_names, enhance), NoSearch)
                    ELSE NoSearch
        provider_calls == <<"main">> \o EnhanceCalls(searching)
        bound == (IF located THEN {"place_details_list", "timeline_places"} ELSE {})
                 \cup (IF searching THEN {"place_info_by_name"} ELSE {})
        map_html == IF located /\ maps /\ searched.place_details_list # <<>>
                    THEN CreateMap(searched.place_details_list, location)
                    ELSE <<>>
        titles == FindTitles(content.lines)
        Title(i) == IF i <= Len(titles) THEN titles[i]
                    ELSE [name |-> "Event Idea", ordinal |-> i]
        Current(i) == IF i <= Len(timeline_places) THEN timeline_places[i] ELSE <<>>
        unbound ==
            IF timeline_matches # <<>> /\ "timeline_places" \notin bound
            THEN "timeline_places"
            ELSE IF /\ \E i \in 1..Len(timeline_matches) : Current(i) # <<>>
                    /\ "place_info_by_name" \notin bound
            THEN "place_info_by_name"
            ELSE IF "place_details_list" \notin bound THEN "place_details_list"
            ELSE ""
        timeline_content ==
            [i \in 1..Len(timeline_matches) |->
                TimelineItem(i - 1, timeline_matches[i], Title(i), Current(i),
                             searched.place_info_by_name, place_names)]
        main_content == IF timeline_matches # <<>> THEN RemoveTimelines(content.lines)
                        ELSE content.lines
    IN IF unbound # ""
       THEN [main |-> Narrative(<<>>), timeline |-> <<>>, map |-> <<>>, places |-> <<>>,
             raised |-> TRUE, error |-> unbound, provider_calls |-> provider_calls,
             search_calls |-> searched.search_calls,
             detail_calls |-> searched.detail_calls]
       ELSE [main |-> Narrative(main_content), timeline |-> timeline_content,
             map |-> map_html, places |-> searched.place_details_list,
             raised |-> FALSE, error |-> "", provider_calls |-> provider_calls,
             search_calls |-> searched.search_calls,
             detail_calls |-> searched.detail_calls]

\* try: ... except Exception as e: the error block with str(e).
TryUncaught(body) == body

Try(body) ==
    IF body.raised
    THEN [Failure(ErrorBlock(body.error)) EXCEPT
            !.provider_calls = body.provider_calls,
            !.search_calls = body.search_calls, !.detail_calls = body.detail_calls]
    ELSE body

\* generate_date_ideas(..., location, ...).  configured: client is not None;
\* provider: what client.chat.completions.create does, raising or answering with a
\* content; maps: is_maps_available().
GenerateDateIdeas(configured, provider, location, maps, gateway) ==
    IF ~configured THEN Failure(NotAvailableBlock)
    ELSE Try(IF provider.raises
             THEN [main |-> Narrative(<<>>), timeline |-> <<>>, map |-> <<>>,
                   places |-> <<>>, raised |-> TRUE, error |-> provider.error,
                   provider_calls |-> <<"main">>, search_calls |-> <<>>,
                   detail_calls |-> <<>>]
             ELSE IF Blank(provider.content)
             THEN [Failure(NoIdeasBlock) EXCEPT !.provider_calls = <<"main">>]
             ELSE ParseAndRender(provider.content, provider.enhance, location, maps,
                                 gateway))

\* Provider answers: the narratives of the tests (an idea whose timeline names two
\* venues, a response without headings) and variations of them.
SampleIdea ==
    Text(<<Line("space"), TitleLine("Sunset Picnic"), Line("text"), Line("space"),
           Line("timeline"), EntryLine(<<"Pike Place Market">>),
           EntryLine(<<"Kerry Park">>), Line("space"), Line("heading"), Line("text"),
           Line("space")>>)
QuietIdea ==
    Text(<<TitleLine("Quiet Evening"), Line("timeline"), EntryLine(<<>>),
           Line("heading"), Line("text")>>)
MalformedIdea == Text(<<Line("space"), Line("text"), Line("text"), Line("space")>>)
TwoIdeas ==
    Text(<<TitleLine("Market Walk"), Line("timeline"),
           EntryLine(<<"Pike Place Market", "zoo">>), Line("heading"), Line("text"),
           TitleLine("Evening In"), Line("timeline"),
           EntryLine(<<"Home", "Pike Place Market">>), EntryLine(<<"Kerry Park">>),
           Line("heading"), Line("text")>>)
MixedIdeas ==
    Text(<<DateTitleLine("Park Walk"), Line("text"), Line("timeline"),
           EntryLine(<<"Kerry Park">>), Line("heading"), Line("text"),
           TitleLine("Market Day"), Line("timeline"),
           EntryLine(<<"Pike Place Market">>), Line("heading"), Line("text")>>)
VariantIdeas ==
    Text(<<TitleLine("Viewpoint"), Line("timeline"), EntryLine(<<"Kerry Park", "zoo">>),
           Line("heading"), Line("text"),
           TitleLine("Picnic"), Line("timeline"),
           EntryLine(<<"kerry park", "Home">>), EntryLine(<<"Kerry Park">>),
           Line("heading"), Line("text")>>)
UntitledIdea == Text(<<Line("text"), Line("timeline"), EntryLine(<<"Downtown">>)>>)
TimelineLast == Text(<<TitleLine("Free Afternoon"), Line("text"), Line("timeline")>>)

Contents ==
    {NoContent, Text(<<>>), Text(<<Line("space"), Line("space")>>), SampleIdea,
     QuietIdea, MalformedIdea, TwoIdeas, MixedIdeas, VariantIdeas, UntitledIdea,
     TimelineLast}
\* The provider: the main call raises or answers with a content; the
\* query-enhancement call raises or answers with an improved query for every name.
EnhanceOutcomes == {"raise", "answer"}
Providers ==
    {[raises |-> TRUE, error |-> "Test exception", content |-> NoContent,
      enhance |-> "raise"]}
    \cup {[raises |-> FALSE, error |-> "", content |-> c, enhance |-> e] :
             c \in Contents, e \in EnhanceOutcomes}
IdeaLocations == {"", "Seattle, WA"}
PlaceNames == {"Pike Place Market", "Kerry Park", "kerry park", "Downtown", "Home", "zoo"}
Queries ==
    {Query(kind, n) : kind \in {"improved", "in_location", "name"}, n \in PlaceNames}
    \cup {Query("type", "park")}

\* Gateways: the results of the improved query, of "<name> in <location>", of the
\* bare name and of the venue type, each a function of the place name, and the
\* place ids that have details.
Gateway(improved, in_location, name, type, details) ==
    [search |-> [q \in Queries |->
                   CASE q.kind = "improved" -> improved[q.text]
                     [] q.kind = "in_location" -> in_location[q.text]
                     [] q.kind = "name" -> name[q.text]
                     [] OTHER -> type],
     details |-> details]

Nothing == [n \in PlaceNames |-> <<>>]
Own == [n \in PlaceNames |-> <<Lower(n)>>]
SharedTop == [n \in PlaceNames |-> <<"shared", Lower(n)>>]
PlaceIds == {Lower(n) : n \in PlaceNames} \cup {"shared", "park"}
NoGateway == Gateway(Nothing, Nothing, Nothing, <<>>, {})
Gateways ==
    {NoGateway,
     Gateway(Own, Own, Own, <<"park">>, PlaceIds),
     Gateway(Own, Own, Own, <<"park">>, {"kerry park"}),
     Gateway(SharedTop, SharedTop, SharedTop, <<"shared", "park">>, PlaceIds),
     Gateway(Own, Nothing, Own, <<"park">>, PlaceIds),
     Gateway(Nothing, Nothing, Nothing, <<"park">>, PlaceIds)}

NoIdea ==
    [done |-> FALSE, configured |-> FALSE,
     provider |-> [raises |-> FALSE, error |-> "", content |-> NoContent,
                   enhance |-> "raise"],
     location |-> "", maps |-> FALSE, gateway |-> NoGateway,
     result |-> Failure(NotAvailableBlock)]

(* --------------- get_busy_status (utilities/map_tools.py) ------------- *)
\* A place as get_busy_status reads it: empty (None or {}), its opening hours
\* ("absent": no 'opening_hours' key; "no_flag": opening hours without 'open_now';
\* "closed" and "open": open_now False and True), its rating in tenths and its
\* number of ratings, both 0 when the place has none (place.get(..., 0)).
BusyPlace(hours, rating, total) ==
    [empty |-> FALSE, hours |-> hours, rating |-> rating, user_ratings_total |-> total]
EmptyPlace == [empty |-> TRUE, hours |-> "absent", rating |-> 0, user_ratings_total |-> 0]

\* busy_times: the busy hours of each weekday, 0 = Monday .. 6 = Sunday.
BusyTimes(day_of_week) ==
    CASE day_of_week \in 0..3 -> {12, 13, 17, 18, 19}
      [] day_of_week = 4 -> {12, 13, 17, 18, 19, 20}
      [] day_of_week = 5 -> {10, 11, 12, 13, 14, 18, 19, 20}
      [] day_of_week = 6 -> {10, 11, 12, 13, 14, 17, 18}

\* get_busy_status(place) at weekday day_of_week and hour `hour` of datetime.now().
GetBusyStatus(place, day_of_week, hour) ==
    IF place.empty THEN ""
    ELSE IF place.hours # "open" THEN "Currently closed"
    ELSE IF hour \in BusyTimes(day_of_week)
         THEN IF place.rating > 45 /\ place.user_ratings_total > 100
              THEN "Likely very busy right now"
              ELSE IF place.rating > 40 THEN "Might be busy right now"
              ELSE "Moderately busy right now"
    ELSE "Likely not too busy right now"

OpeningHours == {"absent", "no_flag", "closed", "open"}
Ratings == {0, 40, 41, 45, 46, 50}
RatingTotals == {0, 100, 101, 150}
BusyPlaces ==
    {EmptyPlace} \cup {BusyPlace(h, r, t) : h \in OpeningHours, r \in Ratings,
                                            t \in RatingTotals}
NoBusy == [done |-> FALSE, place |-> EmptyPlace, day_of_week |-> 0, hour |-> 0,
           label |-> ""]

(* ------ search_places, get_place_details, create_map (map_tools.py) --- *)
\* What one method of the googlemaps client does when called: it raises, it answers
\* without results, or it answers with results.
ProviderOutcomes == {"raise", "empty", "results"}

\* The result of a gateway operation: value is the list returned (search results,
\* the place details as a list of at most one, create_map's filtered places), map
\* and table are create_map's markup, calls the provider methods called, in order.
\* A map markup is the view drawn and its markers; '' is NoMarkup.
Markup(view, markers) == [view |-> view, markers |-> markers]
NoMarkup == Markup("", <<>>)
DefaultView == Markup("default", <<>>)
GatewayResult(value, calls) ==
    [value |-> value, map |-> NoMarkup, table |-> <<>>, calls |-> calls,
     raised |-> FALSE]
MapResult(map, value, table, calls) ==
    [value |-> value, map |-> map, table |-> table, calls |-> calls, raised |-> FALSE]

\* The places a search finds.
FoundPlaces == <<"a", "b">>
Results(outcome) == IF outcome = "results" THEN FoundPlaces ELSE <<>>

\* search_places(location, query): geocode, places, nearby_open and nearby are the
\* outcomes of gmaps.geocode, gmaps.places, gmaps.places_nearby(open_now=True) and
\* the places_nearby of the inner except clause.
GatewaySearchPlaces(available, geocode, places, nearby_open, nearby) ==
    IF ~available THEN GatewayResult(<<>>, <<>>)
    ELSE IF geocode # "results" THEN GatewayResult(<<>>, <<"geocode">>)
    ELSE IF places = "results"
         THEN GatewayResult(FoundPlaces, <<"geocode", "places">>)
    ELSE IF places = "empty" /\ nearby_open # "raise"
         THEN GatewayResult(Results(nearby_open), <<"geocode", "places", "places_nearby">>)
    ELSE LET calls == IF places = "raise" THEN <<"geocode", "places", "places_nearby">>
                      ELSE <<"geocode", "places", "places_nearby", "places_nearby">>
         IN GatewayResult(Results(nearby), calls)

\* get_place_details(place_id): place is the outcome of gmaps.place.
GatewayGetPlaceDetails(available, place_id, place) ==
    IF ~available THEN GatewayResult(<<>>, <<>>)
    ELSE GatewayResult(IF place = "results" THEN <<place_id>> ELSE <<>>, <<"place">>)

\* create_map(places, center_location): a place is [place_id, geometry], geometry
\* telling whether it has geometry.location.lat and lng; geocode is the outcome of
\* gmaps.geocode(center_location).
GatewayCreateMap(available, places, center_location, geocode) ==
    LET valid_places == SelectSeq(places, LAMBDA place : place.geometry)
        ids == [i \in 1..Len(valid_places) |-> valid_places[i].place_id]
    IN IF ~available \/ (places = <<>> /\ center_location = "")
       THEN MapResult(DefaultView, <<>>, <<>>, <<>>)
       ELSE IF places = <<>>
       THEN MapResult(IF geocode = "results" THEN Markup("center", <<center_location>>)
                      ELSE DefaultView,
                      <<>>, <<>>, <<"geocode">>)
       ELSE IF valid_places = <<>> THEN MapResult(DefaultView, <<>>, <<>>, <<>>)
       ELSE MapResult(Markup("places", ids), ids, ids, <<>>)

\* Queries of generate_date_ideas: a place name in a location and, as the last
\* fallback, a venue-type word.
GatewayQueries == {"Kerry Park in Seattle, WA", "restaurant", "cafe"}
MapPlaces ==
    {<<>>, <<[place_id |-> "a", geometry |-> TRUE]>>,
     <<[place_id |-> "a", geometry |-> FALSE]>>,
     <<[place_id |-> "a", geometry |-> FALSE], [place_id |-> "b", geometry |-> TRUE]>>}
NoOutcomes ==
    [geocode |-> "empty", places |-> "empty", nearby_open |-> "empty",
     nearby |-> "empty", place |-> "empty"]
NoGatewayCall ==
    [done |-> FALSE, op |-> "", available |-> FALSE, outcomes |-> NoOutcomes,
     query |-> "", places |-> <<>>, center_location |-> "",
     result |-> GatewayResult(<<>>, <<>>)]

(* ------------- enhance_with_real_places: the place search ------------- *)
\* generate_smart_search_query(activity_name, ...) without vibes: random.choice of
\* the activity's base queries, here for the activities of the first_date timeline.
GenerateSmartSearchQuery(activity_name) ==
    CASE activity_name = "Coffee & Conversation" ->
            {"specialty coffee shop", "local coffee roastery", "artisan coffee",
             "cozy cafe"}
      [] activity_name = "Mini Golf Fun" ->
            {"mini golf", "family entertainment center", "adventure golf", "putt putt"}
      [] activity_name = "Dessert & Walk" ->
            {"dessert shop", "ice cream parlor", "bakery cafe", "gelato shop"}
      [] OTHER -> {"restaurant"}

\* places_type: the value of the first key of type_mapping, in the table's order,
\* that is a substring of the lower-case query; "" for None.
PlacesType(search_query) ==
    CASE search_query \in {"restaurant", "bistro"} -> "restaurant"
      [] search_query \in {"specialty coffee shop", "local coffee roastery",
                           "artisan coffee", "cozy cafe", "bakery cafe", "cafe"} -> "cafe"
      [] search_query \in {"mini golf", "family entertainment center"} -> "amusement_park"
      [] OTHER -> ""

\* What gmaps.places_nearby or gmaps.places does: raise, or answer with results.
Raises == [raises |-> TRUE, results |-> <<>>]
Found(results) == [raises |-> FALSE, results |-> results]
SearchOutcomes == {Raises, Found(<<>>), Found(<<"a">>), Found(<<"a", "b">>)}
\* What gmaps.place does: raise, answer without "result", answer with a result.
DetailOutcomes == {"raise", "none", "result"}

\* A provider call of the pass and what it did.
Call(method, outcome) == [method |-> method, outcome |-> outcome]

\* places_result after the two searches and the calls made.  none: places_result is
\* still None (no typed search or it raised, and the text search raised).
PlacesResult(search_query, nearby, text) ==
    LET typed == PlacesType(search_query) # ""
        fallback == ~typed \/ nearby.raises \/ nearby.results = <<>>
    IN [none |-> (~typed \/ nearby.raises) /\ text.raises,
        results |-> IF fallback /\ ~text.raises THEN text.results
                    ELSE IF typed THEN nearby.results ELSE <<>>,
        calls |-> (IF typed THEN <<Call("places_nearby", nearby)>> ELSE <<>>)
                  \o (IF fallback THEN <<Call("places", text)>> ELSE <<>>)]

\* selected_place: the first result not in used_place_ids, else the first result;
\* "" for None.
SelectedPlaceTop(results, used_place_ids) ==
    IF results = <<>> THEN "" ELSE results[1]

SelectedPlace(results, used_place_ids) ==
    LET unused == SelectSeq(results, LAMBDA place_id : place_id \notin used_place_ids)
    IN IF results = <<>> THEN ""
       ELSE IF unused # <<>> THEN unused[1]
       ELSE results[1]

\* One iteration of "for activity in activities": the activity as it is appended to
\* enhanced, with the query, the searches made, the candidates, used_place_ids as it
\* was before the selection and what gmaps.place did ("" when it was not called).  An exception (places_result None, gmaps.place
\* raising) is caught by the iteration's except clause and leaves the activity as
\* it was.
EnhanceActivity(activity_name, search_query, nearby, text, place, used_place_ids) ==
    LET places_result == PlacesResult(search_query, nearby, text)
        selected_place == IF places_result.none THEN ""
                          ELSE SelectedPlace(places_result.results, used_place_ids)
    IN [activity |-> activity_name, search_query |-> search_query,
        calls |-> places_result.calls,
        details |-> IF selected_place # "" THEN place ELSE "",
        candidates |-> IF places_result.none THEN <<>> ELSE places_result.results,
        used_before |-> used_place_ids,
        selected_place |-> selected_place,
        place_id |-> IF selected_place # "" /\ place = "result" THEN selected_place
                     ELSE ""]

\* The activities of a pass: the first_date timeline trimmed to the time available.
FirstDate == <<"Coffee & Conversation", "Mini Golf Fun", "Dessert & Walk">>
Itineraries == {SubSeq(FirstDate, 1, n) : n \in 1..Len(FirstDate)}
NoPass == [started |-> FALSE, activities |-> <<>>, enhanced |-> <<>>,
           used_place_ids |-> {}]

(* ------------------------------- actions ------------------------------ *)
\* An empty table at day 1, 00:00 UTC, and no request in progress.
EmptyStore ==
    /\ now = 24
    /\ plans = {}
    /\ resp = NoResponse
    /\ fetched = [i \in Ids |-> 0]
    /\ pc = [w \in Workers |-> "idle"]
    /\ loc = [w \in Workers |-> NoLocals]

ShareInit == tz \in TZOffsets /\ EmptyStore

\* No generate_activities call made.
ActIdle ==
    /\ areq = CHOOSE r \in ActivityRequests : TRUE
    /\ acts = NoActs
    /\ idea = NoIdea
    /\ busy = NoBusy
    /\ gw = NoGatewayCall
    /\ enh = NoPass

GeoIdle ==
    /\ pts = <<DefaultLocation, DefaultLocation>>
    /\ calc = NoCalc
    /\ gen = NoGen
    /\ ActIdle

Init == ShareInit /\ GeoIdle

\* The clock advances; the last response is in the past.
Tick ==
    /\ now + TickHours <= MaxTime
    /\ now' = now + TickHours
    /\ resp' = NoResponse
    /\ UNCHANGED <<tz, plans, fetched, pc, loc, geoVars>>

\* POST /api/share-date, served alone.  While every id of the space is stored the
\* uniqueness loop does not end and the handler answers nothing.
CreateSharedDate ==
    \E req \in SharePayloads, field \in ExpiryFields, first \in Ids :
    \E later \in IF first \in StoredIds(plans) THEN Ids \ StoredIds(plans) ELSE {first} :
        LET id == UniqueShareId(plans, first, later)
            row == NewRow(id, req, ExpiryHours(field), now, tz)
            ok == InsertAccepted(plans, row)
        IN
        /\ plans' = InsertRow(plans, row)
        /\ resp' = IF ok
                   THEN [Response("create", id, 200, "success", <<>>)
                            EXCEPT !.req = <<field>>,
                                   !.collided = first \in StoredIds(plans)]
                   ELSE [Response("create", 0, 500, "Failed to create shareable link",
                                  <<>>)
                            EXCEPT !.req = <<field>>]
        /\ UNCHANGED <<now, tz, fetched, pc, loc, geoVars>>

\* GET /api/shared/{share_id}, served alone.
GetSharedDate ==
    \E id \in Ids :
        LET r == GetSharedDateResponse(plans, id, now) IN
        /\ r.status = 200 => TotalViews(plans) < MaxViews
        /\ resp' = r
        /\ plans' = IF r.status = 200 THEN IncrementViewCount(plans, id) ELSE plans
        /\ fetched' = IF r.status = 200 THEN [fetched EXCEPT ![id] = @ + 1] ELSE fetched
        /\ UNCHANGED <<now, tz, pc, loc, geoVars>>

\* GET /shared/{share_id}, served alone.
ViewSharedDate ==
    \E id \in Ids, ui \in BOOLEAN :
        LET r == ViewSharedDateResponse(plans, id, now, ui)
            plan == GetSharedDatePlan(plans, id, now)
        IN
        /\ plan # <<>> => TotalViews(plans) < MaxViews
        /\ resp' = r
        /\ plans' = IF plan # <<>> THEN IncrementViewCount(plans, id) ELSE plans
        /\ fetched' = IF r.status = 200 THEN [fetched EXCEPT ![id] = @ + 1] ELSE fetched
        /\ UNCHANGED <<now, tz, pc, loc, geoVars>>

\* GET /api/og-image/{share_id}
GenerateOgImage ==
    \E id \in Ids :
        /\ resp' = GenerateOgImageResponse(plans, id, now)
        /\ UNCHANGED <<now, tz, plans, fetched, pc, loc, geoVars>>

Next ==
    \/ Tick
    \/ CreateSharedDate
    \/ GetSharedDate
    \/ ViewSharedDate
    \/ GenerateOgImage

Spec == Init /\ [][Next]_vars

(* ----------------- the same handlers, interleaved --------------------- *)
(* Two server processes share the database file.  A handler's database    *)
(* statements are atomic; another handler may run between them.           *)

\* create_shared_date up to the end of the uniqueness loop (and the expiry and
\* title computations, which touch no shared state).
CreateCheck(w) ==
    /\ pc[w] = "idle"
    /\ \E req \in SharePayloads, field \in ExpiryFields, first \in Ids :
       \E later \in IF first \in StoredIds(plans) THEN Ids \ StoredIds(plans) ELSE {first} :
           LET id == UniqueShareId(plans, first, later) IN
           /\ pc' = [pc EXCEPT ![w] = "insert"]
           /\ loc' = [loc EXCEPT ![w] =
                        [op |-> "create", id |-> id,
                         row |-> <<NewRow(id, req, ExpiryHours(field), now, tz)>>,
                         status |-> 0]]
    /\ UNCHANGED <<now, tz, plans, resp, fetched, geoVars>>

\* create_shared_date: INSERT, commit, and the response; an IntegrityError lands in
\* `except Exception` and becomes HTTP 500.
CreateInsert(w) ==
    /\ pc[w] = "insert"
    /\ LET row == loc[w].row[1] IN
       /\ plans' = InsertRow(plans, row)
       /\ loc' = [loc EXCEPT ![w].status = IF InsertAccepted(plans, row) THEN 200 ELSE 500]
    /\ pc' = [pc EXCEPT ![w] = "done"]
    /\ UNCHANGED <<now, tz, resp, fetched, geoVars>>

\* Display fetches that have read a plan and not yet incremented it.
PendingViews == Cardinality({v \in Workers : pc[v] = "increment"})

\* get_shared_date: plan = get_shared_date_plan(share_id)
FetchRead(w) ==
    /\ pc[w] = "idle"
    /\ \E id \in Ids :
        LET plan == GetSharedDatePlan(plans, id, now) IN
        /\ plan # <<>> => TotalViews(plans) + PendingViews < MaxViews
        /\ pc' = [pc EXCEPT ![w] = IF plan = <<>> THEN "done" ELSE "increment"]
        /\ loc' = [loc EXCEPT ![w] =
                     [op |-> "get_shared", id |-> id, row |-> plan,
                      status |-> IF plan = <<>> THEN 404 ELSE 0]]
    /\ UNCHANGED <<now, tz, plans, resp, fetched, geoVars>>

\* Variant: the handler writes back the view count it read, plus one.
FetchIncrementStale(w) ==
    /\ pc[w] = "increment"
    /\ plans' = {IF r.id = loc[w].id
                 THEN [r EXCEPT !.view_count = loc[w].row[1].view_count + 1]
                 ELSE r : r \in plans}
    /\ fetched' = [fetched EXCEPT ![loc[w].id] = @ + 1]
    /\ loc' = [loc EXCEPT ![w].status = 200]
    /\ pc' = [pc EXCEPT ![w] = "done"]
    /\ UNCHANGED <<now, tz, resp, geoVars>>

\* get_shared_date: increment_view_count(share_id) and the response
FetchIncrement(w) ==
    /\ pc[w] = "increment"
    /\ plans' = IncrementViewCount(plans, loc[w].id)
    /\ fetched' = [fetched EXCEPT ![loc[w].id] = @ + 1]
    /\ loc' = [loc EXCEPT ![w].status = 200]
    /\ pc' = [pc EXCEPT ![w] = "done"]
    /\ UNCHANGED <<now, tz, resp, geoVars>>

\* The response leaves; the worker takes the next request.
Return(w) ==
    /\ pc[w] = "done"
    /\ pc' = [pc EXCEPT ![w] = "idle"]
    /\ loc' = [loc EXCEPT ![w] = NoLocals]
    /\ UNCHANGED <<now, tz, plans, resp, fetched, geoVars>>

NextConc ==
    \E w \in Workers :
        \/ CreateCheck(w)
        \/ CreateInsert(w)
        \/ FetchRead(w)
        \/ FetchIncrement(w)
        \/ Return(w)

SpecConc == Init /\ [][NextConc]_vars

(* ------------------- geographic operations, applied ------------------- *)
GeoInit ==
    /\ tz = 0
    /\ EmptyStore
    /\ pts \in Points \X Points
    /\ calc = NoCalc
    /\ gen = NoGen
    /\ ActIdle

\* calculate_midpoint_and_radius(location1, location2)
CalculateMidpoint ==
    /\ calc' = CalculateMidpointAndRadius(pts[1], pts[2])
    /\ UNCHANGED <<shareVars, pts, gen, areq, acts, idea, busy, gw, enh>>

\* POST /api/generate-date.  The handler keeps nothing from one request to the next:
\* one exchange is followed per pair of coordinates.
GenerateDate ==
    \E gmaps \in BOOLEAN, date_location \in BOOLEAN :
    \E geocode1 \in GeocodeOutcomes, geocode2 \in GeocodeOutcomes, exact \in BOOLEAN :
    \E req \in DateRequests, places \in IF gmaps THEN PlaceResults ELSE {NoPlaces} :
        /\ ~gen.done
        /\ gen' = GenerateDateResponse(gmaps, geocode1, date_location, geocode2,
                                       pts[1], pts[2], exact, req, places)
        /\ UNCHANGED <<shareVars, pts, calc, areq, acts, idea, busy, gw, enh>>

NextGeo ==
    \/ CalculateMidpoint
    \/ GenerateDate

SpecGeo == GeoInit /\ [][NextGeo]_vars

(* ---------------------- generate_activities, applied ------------------ *)
ActInit ==
    /\ tz = 0
    /\ EmptyStore
    /\ pts = <<DefaultLocation, DefaultLocation>>
    /\ calc = NoCalc
    /\ gen = NoGen
    /\ areq \in ActivityRequests
    /\ acts = NoActs
    /\ idea = NoIdea
    /\ busy = NoBusy
    /\ gw = NoGatewayCall
    /\ enh = NoPass

\* generate_activities(event_type, budget, vibes, location, time_available), as
\* generate_date calls it without a maps client: around the default coordinate.
CallGenerateActivities ==
    /\ ~acts.done
    /\ acts' = [done |-> TRUE,
                result |-> GenerateActivities(areq.event_type, areq.budget, areq.vibes,
                                              DefaultLocation, areq.time_available)]
    /\ UNCHANGED <<shareVars, pts, calc, gen, areq, idea, busy, gw, enh>>

NextAct == CallGenerateActivities

SpecAct == ActInit /\ [][NextAct]_vars

(* ---------------------- generate_date_ideas, applied ------------------ *)
IdeasInit ==
    /\ tz = 0
    /\ EmptyStore
    /\ GeoIdle

\* One call of generate_date_ideas.  The function keeps nothing from one call to the
\* next.
CallGenerateDateIdeas ==
    \E configured \in BOOLEAN, provider \in Providers, location \in IdeaLocations :
    \E maps \in BOOLEAN :
    \E gateway \in IF maps THEN Gateways ELSE {NoGateway} :
        /\ ~idea.done
        /\ idea' = [done |-> TRUE, configured |-> configured, provider |-> provider,
                    location |-> location, maps |-> maps, gateway |-> gateway,
                    result |-> GenerateDateIdeas(configured, provider, location, maps,
                                                 gateway)]
        /\ UNCHANGED <<shareVars, pts, calc, gen, areq, acts, busy, gw, enh>>

NextIdeas == CallGenerateDateIdeas

SpecIdeas == IdeasInit /\ [][NextIdeas]_vars

(* ------------------------ get_busy_status, applied -------------------- *)
BusyInit ==
    /\ tz = 0
    /\ EmptyStore
    /\ GeoIdle

\* One call of get_busy_status, at any weekday and hour of the wall clock.
CallGetBusyStatus ==
    \E place \in BusyPlaces, day_of_week \in 0..6, hour \in 0..23 :
        /\ ~busy.done
        /\ busy' = [done |-> TRUE, place |-> place, day_of_week |-> day_of_week,
                    hour |-> hour, label |-> GetBusyStatus(place, day_of_week, hour)]
        /\ UNCHANGED <<shareVars, pts, calc, gen, areq, acts, idea, gw, enh>>

NextBusy == CallGetBusyStatus

SpecBusy == BusyInit /\ [][NextBusy]_vars

(* -------------------- Place Data Gateway, applied --------------------- *)
MapsInit ==
    /\ tz = 0
    /\ EmptyStore
    /\ GeoIdle

CallSearchPlaces ==
    \E available \in BOOLEAN, geocode \in ProviderOutcomes, places \in ProviderOutcomes :
    \E nearby_open \in ProviderOutcomes, nearby \in ProviderOutcomes :
    \E query \in GatewayQueries :
        /\ ~gw.done
        /\ ~enh.started
        /\ gw' = [NoGatewayCall EXCEPT
                    !.done = TRUE, !.op = "search_places", !.available = available,
                    !.query = query,
                    !.outcomes = [NoOutcomes EXCEPT !.geocode = geocode,
                                     !.places = places, !.nearby_open = nearby_open,
                                     !.nearby = nearby],
                    !.result = GatewaySearchPlaces(available, geocode, places,
                                                   nearby_open, nearby)]
        /\ UNCHANGED <<shareVars, pts, calc, gen, areq, acts, idea, busy, enh>>

CallGetPlaceDetails ==
    \E available \in BOOLEAN, place \in ProviderOutcomes :
        /\ ~gw.done
        /\ gw' = [NoGatewayCall EXCEPT
                    !.done = TRUE, !.op = "get_place_details", !.available = available,
                    !.outcomes = [NoOutcomes EXCEPT !.place = place],
                    !.result = GatewayGetPlaceDetails(available, "a", place)]
        /\ UNCHANGED <<shareVars, pts, calc, gen, areq, acts, idea, busy, enh>>

CallCreateMap ==
    \E available \in BOOLEAN, places \in MapPlaces, center_location \in IdeaLocations :
    \E geocode \in ProviderOutcomes :
        /\ ~gw.done
        /\ gw' = [NoGatewayCall EXCEPT
                    !.done = TRUE, !.op = "create_map", !.available = available,
                    !.outcomes = [NoOutcomes EXCEPT !.geocode = geocode],
                    !.places = places, !.center_location = center_location,
                    !.result = GatewayCreateMap(available, places, center_location,
                                                geocode)]
        /\ UNCHANGED <<shareVars, pts, calc, gen, areq, acts, idea, busy, enh>>

NextMaps ==
    \/ CallSearchPlaces
    \/ CallGetPlaceDetails
    \/ CallCreateMap

SpecMaps == MapsInit /\ [][NextMaps]_vars

(* ------------------- the place searches, applied ---------------------- *)
PlacesInit ==
    /\ tz = 0
    /\ EmptyStore
    /\ GeoIdle

\* enhance_with_real_places(activities, center, ...) begins a pass.
CallEnhanceWithRealPlaces ==
    \E activities \in Itineraries :
        /\ ~enh.started
        /\ ~gw.done
        /\ enh' = [NoPass EXCEPT !.started = TRUE, !.activities = activities]
        /\ UNCHANGED <<shareVars, pts, calc, gen, areq, acts, idea, busy, gw>>

\* One iteration of the pass, with what the provider answers to its calls.
EnhanceNextActivity ==
    /\ enh.started
    /\ Len(enh.enhanced) < Len(enh.activities)
    /\ \E search_query \in
            GenerateSmartSearchQuery(enh.activities[Len(enh.enhanced) + 1]) :
       \E nearby \in SearchOutcomes, text \in SearchOutcomes, place \in DetailOutcomes :
          LET activity == EnhanceActivity(enh.activities[Len(enh.enhanced) + 1],
                                          search_query, nearby, text, place,
                                          enh.used_place_ids)
          IN enh' = [enh EXCEPT
                       !.enhanced = Append(@, activity),
                       !.used_place_ids =
                           IF activity.selected_place = "" THEN @
                           ELSE @ \cup {activity.selected_place}]
    /\ UNCHANGED <<shareVars, pts, calc, gen, areq, acts, idea, busy, gw>>

\* The two search implementations: the backend's pass and the gateway's
\* search_places.
NextPlaces ==
    \/ CallEnhanceWithRealPlaces
    \/ EnhanceNextActivity
    \/ CallSearchPlaces

SpecPlaces == PlacesInit /\ [][NextPlaces]_vars

(* ======================= properties of the store ====================== *)
FetchOps == {"get_shared", "view_shared", "og_image"}
DisplayOps == {"get_shared", "view_shared"}

\* The UTC hour at which a row's expires_at, a local time written by create, passes.
ExpiryInstant(r, offset) == r.expires_at[1] * 24 + r.expires_at[3] - offset

\* The UTC hour a row was created at.
CreatedInstant(r) == r.created_at[1] * 24 + r.created_at[3]

\* A row without its view counter.
Content(r) == [r EXCEPT !.view_count = 0]

Unexpired(r, t, offset) == r.expires_at = NULL \/ ExpiryInstant(r, offset) > t

\* C1: a fetch made at time t returns the plan if and only if a record with that id
\* exists and its expires_at is unset or strictly later than t; so a plan created at c
\* with expiry_hours = h > 0 is returned by no fetch made after c + h hours.
C1_FetchIffUnexpired ==
    resp.op \in FetchOps =>
        (resp.plan # <<>>
            <=> \E r \in plans : r.id = resp.id /\ Unexpired(r, now, tz))

\* C2 (state part): each plan's view_count is the number of successful display fetches
\* of it, and a plan just displayed counts one more than the handler read.
ViewCountsExact ==
    /\ \A r \in plans : r.view_count = fetched[r.id]
    /\ \A i \in Ids \ StoredIds(plans) : fetched[i] = 0
    /\ (resp.op \in DisplayOps /\ resp.status = 200) =>
            RowOf(plans, resp.id).view_count = resp.plan[1].view_count + 1

\* C2: every successful display fetch raises that plan's view_count by exactly 1 and
\* no other plan's; a not-found fetch and an og-image fetch change no view_count; so
\* view_count equals the number of successful display fetches, and two successive
\* successful GET /api/shared/{id} responses report counts that differ by exactly 1.
C2_ViewCountByOne ==
    [][ /\ ViewCountsExact'
        /\ \A i \in Ids :
              (/\ fetched'[i] # fetched[i]
               /\ resp.op = "get_shared" /\ resp.status = 200 /\ resp.id = i
               /\ resp'.op = "get_shared" /\ resp'.status = 200 /\ resp'.id = i)
              => resp'.plan[1].view_count = resp.plan[1].view_count + 1
      ]_vars

\* C2 witness: a second successful GET /api/shared/{id} while another plan is stored.
C2_Witness ==
    /\ resp.op = "get_shared" /\ resp.status = 200
    /\ resp.plan[1].view_count = 1
    /\ Cardinality(plans) = 2

UniqueIds(store) == \A r1 \in store, r2 \in store : r1.id = r2.id => r1 = r2

\* C3: creates served one after another, also when the first token drawn is already
\* stored, always succeed with an id that was unused, leave every stored row as it was
\* and never leave two rows with one id.
C3_CreateNeverCollides ==
    [][ (resp'.op = "create" /\ (resp' # resp \/ plans' # plans)) =>
            /\ resp'.status = 200
            /\ resp'.id \notin StoredIds(plans)
            /\ plans \subseteq plans'
            /\ Cardinality(plans') = Cardinality(plans) + 1
            /\ UniqueIds(plans')
      ]_vars

\* C3 witness: a create whose first token was taken answered with a second plan stored.
C3_Witness ==
    /\ resp.op = "create" /\ resp.status = 200 /\ resp.collided
    /\ Cardinality(plans) = 2

\* C4: two interleaved creates that both passed the check with the same id both end
\* in success, with both plans stored.
C4_BothCreatesSucceed ==
    \A w \in Workers :
        (pc[w] = "done" /\ loc[w].op = "create") =>
            /\ loc[w].status = 200
            /\ \E r \in plans : Content(r) = Content(loc[w].row[1])

\* C5: a create with expiry_hours <= 0 or null stores expires_at unset, and such a plan
\* is returned by every later fetch; a create with expiry_hours = h > 0 stores the
\* creation time plus h hours, h = 168 when the field is omitted.
C5_ExpiryStored ==
    /\ (resp.op = "create" /\ resp.status = 200) =>
          LET r == RowOf(plans, resp.id)
              f == resp.req[1]
          IN /\ CreatedInstant(r) = now
             /\ IF f.kind = "null" \/ (f.kind = "int" /\ f.v <= 0)
                THEN r.expires_at = NULL
                ELSE /\ r.expires_at # NULL
                     /\ ExpiryInstant(r, tz)
                           = now + (IF f.kind = "omitted" THEN 168 ELSE f.v)
    /\ \A r \in plans :
          (resp.op \in FetchOps /\ resp.id = r.id /\ r.expires_at = NULL) =>
              resp.plan # <<>>

\* C5 witness: a plan without expiry fetched a day or more after its creation.
C5_Witness ==
    /\ resp.op = "get_shared" /\ resp.plan # <<>>
    /\ resp.plan[1].expires_at = NULL
    /\ now >= CreatedInstant(resp.plan[1]) + 24

SameOutcome(a, b) == [a EXCEPT !.id = 0] = [b EXCEPT !.id = 0]

\* C6: in every store state each fetch endpoint answers an expired plan's id exactly
\* as it answers an id that was never created.
C6_ExpiredLikeMissing ==
    \A r \in plans :
        ~Unexpired(r, now, tz) =>
            /\ SameOutcome(GetSharedDateResponse(plans, r.id, now),
                           GetSharedDateResponse(plans, 0, now))
            /\ \A ui \in BOOLEAN :
                  SameOutcome(ViewSharedDateResponse(plans, r.id, now, ui),
                              ViewSharedDateResponse(plans, 0, now, ui))
            /\ SameOutcome(GenerateOgImageResponse(plans, r.id, now),
                           GenerateOgImageResponse(plans, 0, now))

\* C7: a stored plan is never removed and none of its fields but view_count ever
\* changes; view_count never decreases; the number of rows never decreases.
C7_RowsOnlyCountViews ==
    [][ /\ \A r \in plans :
              \E q \in plans' : Content(q) = Content(r) /\ q.view_count >= r.view_count
        /\ Cardinality(plans') >= Cardinality(plans)
      ]_vars

\* C7 witness: a viewed plan with an expiry that no fetch returns any more is still
\* stored.
C7_Witness ==
    \E r \in plans :
        /\ r.expires_at # NULL
        /\ r.view_count > 0
        /\ GetSharedDatePlan(plans, r.id, now) = <<>>

(* ================= properties of the geographic part ================== *)
\* C8: calculate_midpoint_and_radius raises exactly for points more than 1000 km
\* apart and returns a result otherwise; generate_date answers a pair more than 1000 km
\* apart with destination suggestions and searches around no midpoint.
C8_DistanceGate ==
    /\ calc.done =>
          /\ calc.raised <=> HaversineDistance(pts[1], pts[2]) > 1000000
          /\ ~calc.raised => calc.midpoint # <<>>
    /\ LET l1 == IF gen.gmaps /\ gen.geocode1 = "ok" THEN pts[1] ELSE DefaultLocation IN
       (/\ gen.done /\ gen.gmaps /\ gen.date_location /\ gen.geocode2 = "ok"
        /\ HaversineDistance(l1, pts[2]) > 1000000)
       => /\ gen.status = 200
          /\ gen.long_distance /\ gen.destination_suggestions
          /\ ~gen.searched /\ ~gen.activities
          /\ gen.center = <<>>

\* C8 witness: for one pair, the computation has raised and the handler has answered
\* with destinations.
C8_Witness ==
    /\ calc.done /\ calc.raised
    /\ gen.done /\ gen.long_distance

\* C9: for two identical points the computation returns that point and 5000 m.
C9_IdenticalPoints ==
    (calc.done /\ pts[1] = pts[2]) =>
        (~calc.raised /\ calc.midpoint = pts[1] /\ calc.radius = 5000)

\* The five-band table: (factor, cap) by distance.
FiveBandRadius(distance) ==
    IF distance < 8000 THEN Min(4800, (distance * 6) \div 10)
    ELSE IF distance < 32000 THEN Min(16000, (distance * 4) \div 10)
    ELSE IF distance < 80000 THEN Min(24000, (distance * 3) \div 10)
    ELSE IF distance < 200000 THEN Min(40000, (distance * 25) \div 100)
    ELSE Min(80000, (distance * 15) \div 100)

\* C10: for 0 < d <= 1000 km the radius is the integer part of min(cap, d * factor)
\* of the five-band table.
C10_FiveBands ==
    LET d == HaversineDistance(pts[1], pts[2]) IN
    (calc.done /\ 0 < d /\ d <= 1000000) =>
        (~calc.raised /\ calc.radius = FiveBandRadius(d))

\* The band of the radius table a distance falls in.
Band(distance) ==
    IF distance < 8000 THEN 1
    ELSE IF distance < 32000 THEN 2
    ELSE IF distance < 80000 THEN 3
    ELSE IF distance < 200000 THEN 4
    ELSE 5

\* The distances between the coordinates considered.
PairDistances == {HaversineDistance(q[1], q[2]) : q \in Points \X Points}

\* C11 as stated: the radius is monotone in the distance over all of (0, 1000] km; the
\* radius computed for a pair is at least the radius of every shorter distance.
C11_RadiusMonotone ==
    (calc.done /\ ~calc.raised /\ calc.distance > 0) =>
        \A e \in PairDistances :
            (0 < e /\ e < calc.distance) => SmartRadius(e) <= calc.radius

\* C11 amended: the radius is monotone in the distance within one band of the table;
\* from one band to the next it may drop.
C11_RadiusMonotoneInBand ==
    (calc.done /\ ~calc.raised /\ calc.distance > 0) =>
        \A e \in PairDistances :
            (0 < e /\ e < calc.distance /\ Band(e) = Band(calc.distance))
                => SmartRadius(e) <= calc.radius

\* C11 witness: a radius computed for a pair, larger than that of a shorter distance of
\* the same band and smaller than that of a shorter distance of the band before.
C11_Witness ==
    /\ calc.done /\ ~calc.raised
    /\ \E e \in PairDistances :
          /\ 0 < e /\ e < calc.distance /\ Band(e) = Band(calc.distance)
          /\ SmartRadius(e) < calc.radius
    /\ \E e \in PairDistances :
          /\ 0 < e /\ Band(e) + 1 = Band(calc.distance)
          /\ SmartRadius(e) > calc.radius

\* Both locations of the last request were geocoded, so that the handler compared the
\* two coordinates under consideration.
BothGeocoded ==
    /\ gen.done /\ gen.gmaps /\ gen.date_location
    /\ gen.geocode1 = "ok" /\ gen.geocode2 = "ok"

\* C12: every fairness_score reported by find_destination_cities lies in [0, 100], and
\* it is 100 only when the two per-person distances reported with it are equal.
C12_FairnessScore ==
    \A i \in 1..Len(gen.destinations) :
        LET s == gen.destinations[i] IN
        /\ 0 <= s.fairness_score /\ s.fairness_score <= 1000
        /\ s.fairness_score = 1000 => s.distance_person1 = s.distance_person2

\* C13: with both locations geocoded to points more than 1000 km apart the response is
\* a success flagged long-distance that carries a non-empty list of at most the
\* requested number of cities, sorted by descending score, each with the distance from
\* either person; it has no activities, and nothing was generated or searched.
C13_LongDistanceResponse ==
    (BothGeocoded /\ HaversineDistance(pts[1], pts[2]) > 1000000) =>
        /\ gen.status = 200 /\ gen.long_distance /\ gen.destination_suggestions
        /\ Len(gen.destinations) >= 1 /\ Len(gen.destinations) <= DefaultCount
        /\ \A i \in 1..(Len(gen.destinations) - 1) :
              gen.destinations[i].score >= gen.destinations[i + 1].score
        /\ \A i \in 1..Len(gen.destinations) :
              LET s == gen.destinations[i] IN
              /\ s.distance_person1 = RoundTenth(CityDistance(pts[1], s.city))
              /\ s.distance_person2 = RoundTenth(CityDistance(pts[2], s.city))
        /\ \A i \in 1..Len(gen.destinations), j \in 1..Len(gen.destinations) :
              gen.destinations[i].city = gen.destinations[j].city => i = j
        /\ ~gen.activities /\ ~gen.searched

\* C13 witness: a long-distance answer listing five cities of different scores.
C13_Witness ==
    /\ BothGeocoded /\ gen.long_distance
    /\ Len(gen.destinations) = DefaultCount
    /\ gen.destinations[1].score > gen.destinations[DefaultCount].score

\* C14: with both locations geocoded to points at most 1000 km apart the response is
\* in two-location mode, centred on the midpoint of the two points, with the adaptive
\* radius (three tenths of the distance between 32 and 80 km), a distance_info whose
\* fairness_score is within [0, 100], and on every activity the travel of either
\* person and a fairness_score within [0, 100].
C14_TwoLocationResponse ==
    LET d == HaversineDistance(pts[1], pts[2]) IN
    (BothGeocoded /\ d <= 1000000) =>
        /\ gen.status = 200
        /\ gen.two_location /\ ~gen.long_distance
        /\ gen.center = Midpoint(pts[1], pts[2])
        /\ gen.search_radius = SmartRadius(d)
        /\ (32000 <= d /\ d < 80000) => gen.search_radius = (3 * d) \div 10
        /\ gen.distance_info # <<>>
        /\ gen.distance_info[1].fairness_score \in 0..1000
        /\ Len(gen.activity_list) >= 1
        /\ \A i \in 1..Len(gen.activity_list) :
              LET a == gen.activity_list[i] IN
              /\ {"travel_person1", "travel_person2", "fairness_score"}
                    \subseteq DOMAIN a
              /\ a.fairness_score \in 0..1000

\* C15: whatever the request, the provider and the geocodings do, also for a
\* date_location at the very coordinates of location, the handler returns a response,
\* and a response in two-location mode carries distance_info.
C15_NeverUnhandled ==
    gen.done =>
        /\ gen.status = 200
        /\ (gen.two_location /\ ~gen.long_distance) => gen.distance_info # <<>>

(* =================== properties of generate_activities ================ *)
\* The number of entries of each event type's list; an unknown type takes the list of
\* casual_dating.
TemplateLength(event_type) ==
    CASE event_type = "first_date" -> 3
      [] event_type = "casual_dating" -> 4
      [] event_type = "married_date" -> 3
      [] event_type = "friends_night" -> 3
      [] event_type = "family_outing" -> 4
      [] OTHER -> 4

\* C16: without a maps client, for every event type, budget >= 0, vibes and integer
\* time_available the list is non-empty, has min(template length,
\* max(1, time_available // 2)) entries that each cost at most budget // 2, and its first
\* title begins with the romantic decoration exactly when "romantic" is among the
\* vibes; casual_dating, budget 100, [romantic], 4 hours: two activities of at most 50.
C16_TemplatedActivities ==
    (acts.done /\ areq.budget >= 0 /\ areq.time_available # NULL) =>
        LET list == acts.result.list
            t == areq.time_available[1]
            want == IF t \div 2 < 1 THEN 1 ELSE t \div 2
        IN
        /\ ~acts.result.raised
        /\ Len(list) >= 1
        /\ Len(list) = IF want < TemplateLength(areq.event_type)
                        THEN want ELSE TemplateLength(areq.event_type)
        /\ \A i \in 1..Len(list) : 2 * list[i].estimated_cost <= areq.budget
        /\ (list[1].activity[1] = RomanticPrefix)
              <=> (\E i \in 1..Len(areq.vibes) : areq.vibes[i] = "romantic")
        /\ (/\ areq.event_type = "casual_dating" /\ areq.budget = 100
            /\ areq.vibes = <<"romantic">> /\ t = 4)
           => (/\ Len(list) = 2
               /\ list[1].estimated_cost <= 50 /\ list[2].estimated_cost <= 50
               /\ list[1].activity = <<RomanticPrefix, "Lunch Together">>)

\* C16 witness: the call of the example has returned two activities.
C16_Witness ==
    /\ acts.done /\ ~acts.result.raised
    /\ areq.event_type = "casual_dating" /\ areq.budget = 100
    /\ areq.vibes = <<"romantic">> /\ areq.time_available = <<4>>
    /\ Len(acts.result.list) = 2


(* ================== properties of generate_date_ideas ================= *)
FailureBlocks == {NotAvailableBlock.heading, NoIdeasBlock.heading, ErrorBlock("").heading}

\* The outputs beside the narrative are empty and nothing left the function.
EmptyOutputs(r) == r.timeline = <<>> /\ r.map = <<>> /\ r.places = <<>> /\ ~r.raised

\* C17: a call of generate_date_ideas ends in one of four outcomes: without a
\* provider the "not available" block, on a provider exception the "Error
\* Generating" block with the exception's text, on a blank or whitespace-only answer
\* the "no ideas" block, else a narrative; the three blocks differ from each other
\* and from a narrative, they come with an empty timeline, map and place list, and
\* no call raises to its caller.
C17_FourOutcomes ==
    idea.done =>
        LET r == idea.result
        IN /\ ~r.raised
           /\ Cardinality(FailureBlocks) = 3
           /\ r.main.heading \in FailureBlocks \cup {""}
           /\ r.main.heading \in FailureBlocks => EmptyOutputs(r) /\ r.main.lines = <<>>
           /\ r.main.heading = "" => r.main = Narrative(r.main.lines)
           /\ ~idea.configured => r.main = NotAvailableBlock
           /\ idea.configured /\ idea.provider.raises
                => r.main = ErrorBlock(idea.provider.error)
           /\ idea.configured /\ ~idea.provider.raises /\ Blank(idea.provider.content)
                => r.main = NoIdeasBlock

\* C17 witness: the provider raised and the call answered with the error block.
C17_Witness ==
    /\ idea.done /\ idea.configured /\ idea.provider.raises
    /\ idea.result.main = ErrorBlock("Test exception")
    /\ EmptyOutputs(idea.result)


\* The provider answered with a narrative that is not blank.
Answered ==
    /\ idea.done /\ idea.configured /\ ~idea.provider.raises
    /\ ~Blank(idea.provider.content)

\* The timelines of the provider's answer and the place names recognised in them.
AnswerTimelines == FindTimelines(idea.provider.content.lines, 1)
AnswerPlaces ==
    ExtractPlaces(AnswerTimelines,
                  [place_names |-> <<>>, timeline_places |-> <<>>]).place_names

\* C18: a narrative that is not blank and no location (the empty string) give the
\* success result: the narrative as main content, a timeline output exactly when the
\* narrative has "### Timeline:" sections, the map '' and the place list [], never
\* an error block.
C18_NoLocationSuccess ==
    Answered /\ idea.location = "" =>
        LET r == idea.result
        IN /\ r.main.heading = ""
           /\ r.main.lines # <<>>
           /\ (r.timeline # <<>>) <=> (AnswerTimelines # <<>>)
           /\ r.map = <<>>
           /\ r.places = <<>>

\* C19: a narrative with a titled idea whose timeline names recognisable places, a
\* location supplied and no maps gateway give the narrative as main content and a
\* timeline panel titled after the idea, with the map '' and the place list [], not
\* the error block.
C19_MapsUnavailable ==
    /\ Answered /\ idea.location # "" /\ ~idea.maps
    /\ FindTitles(idea.provider.content.lines) # <<>>
    /\ AnswerPlaces # <<>>
    => LET r == idea.result
       IN /\ r.main.heading = ""
          /\ r.main.lines # <<>>
          /\ r.timeline # <<>>
          /\ r.timeline[1].title = FindTitles(idea.provider.content.lines)[1]
          /\ r.map = <<>>
          /\ r.places = <<>>

\* C20: a narrative without a "### Timeline:" heading and without venue patterns
\* comes back unchanged as the main content, with the timeline '', the map '' and
\* the place list [], whether or not a location is supplied and whether or not the
\* maps gateway is available.
C20_MalformedNarrative ==
    /\ Answered
    /\ \A i \in 1..Len(idea.provider.content.lines) :
          /\ idea.provider.content.lines[i].kind # "timeline"
          /\ idea.provider.content.lines[i].places = <<>>
    => LET r == idea.result
       IN /\ r.main = Narrative(idea.provider.content.lines)
          /\ r.timeline = <<>>
          /\ r.map = <<>>
          /\ r.places = <<>>
          /\ ~r.raised


\* The lines of the provider's answer, the positions of its idea headings (either
\* form) and of its "### Timeline:" headings.
AnswerLines == idea.provider.content.lines
Positions(lines, kinds) == {i \in 1..Len(lines) : lines[i].kind \in kinds}
IdeaHeadings == Positions(AnswerLines, {"title", "date_title"})
TimelineHeadings == Positions(AnswerLines, {"timeline"})

\* The k-th smallest element of a set of positions.
Nth(S, k) == CHOOSE i \in S : Cardinality({j \in S : j <= i}) = k

\* n idea blocks, each a heading followed by its own timeline section.
IdeaBlocks(n) ==
    /\ n >= 1
    /\ Cardinality(IdeaHeadings) = n
    /\ Cardinality(TimelineHeadings) = n
    /\ \A k \in 1..n :
          /\ Nth(IdeaHeadings, k) < Nth(TimelineHeadings, k)
          /\ k < n => Nth(TimelineHeadings, k) < Nth(IdeaHeadings, k + 1)

\* C21: a narrative of n idea blocks, each headed "## Date Idea: <title>" or
\* "## Event Idea: <title>" and followed by a "### Timeline:" section, is parsed into
\* n timeline fragments, the i-th shown under the i-th block's title, and the main
\* narrative returned has none of the timeline sections left in it.
C21_TimelineRoundTrip ==
    \A n \in 1..Len(AnswerLines) :
        /\ Answered /\ IdeaBlocks(n)
        /\ idea.result.main.heading = ""
        => LET r == idea.result
           IN /\ Len(r.timeline) = n
              /\ \A k \in 1..n :
                    /\ r.timeline[k].title.ordinal = 0
                    /\ r.timeline[k].title.name
                         = AnswerLines[Nth(IdeaHeadings, k)].title
              /\ \A i \in 1..Len(r.main.lines) :
                    r.main.lines[i].kind \notin {"timeline", "entry"}


(* ==================== properties of get_busy_status =================== *)
\* C22: get_busy_status follows the rule table at every clock reading: open_now
\* false gives "Currently closed"; a place without opening-hours data gives the
\* empty label; an open place in a busy hour of the weekday gives "Likely very
\* busy" for rating > 4.5 and more than 100 ratings, else "Might be busy" for
\* rating > 4.0, else "Moderately busy"; outside the busy hours "Likely not too busy".
C22_BusyRuleTable ==
    busy.done /\ ~busy.place.empty =>
        LET place == busy.place
            inBusy == busy.hour \in BusyTimes(busy.day_of_week)
        IN /\ place.hours = "closed" => busy.label = "Currently closed"
           /\ place.hours = "absent" => busy.label = ""
           /\ place.hours = "open" /\ inBusy
                => busy.label =
                     IF place.rating > 45 /\ place.user_ratings_total > 100
                     THEN "Likely very busy right now"
                     ELSE IF place.rating > 40 THEN "Might be busy right now"
                     ELSE "Moderately busy right now"
           /\ place.hours = "open" /\ ~inBusy
                => busy.label = "Likely not too busy right now"


(* ================= properties of the Place Data Gateway =============== *)
\* The outcome of the last provider call an operation made.
LastCall ==
    LET calls == gw.result.calls
        o == gw.outcomes
    IN IF calls = <<>> THEN "none"
       ELSE IF calls[Len(calls)] = "geocode" THEN o.geocode
       ELSE IF calls[Len(calls)] = "places" THEN o.places
       ELSE IF calls[Len(calls)] = "place" THEN o.place
       ELSE IF Len(calls) = 3 /\ o.places = "empty" THEN o.nearby_open
       ELSE o.nearby

\* The empty result of an operation: [] or {}, and for create_map '', [] and ''.
EmptyGatewayResult ==
    gw.result.value = <<>> /\ gw.result.map = NoMarkup /\ gw.result.table = <<>>

\* C23: without a gateway client every operation returns its empty result (search
\* []; details {}; create_map an empty map string, place list and table string),
\* without a provider call and without raising; with a client, an operation whose
\* provider call raised returns the same empty result, never the exception.
C23_GatewayDegrades ==
    gw.done =>
        /\ ~gw.result.raised
        /\ ~gw.available => gw.result.calls = <<>> /\ EmptyGatewayResult
        /\ gw.available /\ LastCall = "raise" => EmptyGatewayResult

(* =========== properties of generate_date_ideas' outgoing calls ========= *)
\* The number of calls of one kind among the provider calls of the generation.
CallsOf(kind) ==
    Cardinality({k \in 1..Len(idea.result.provider_calls) :
                   idea.result.provider_calls[k] = kind})

\* C24: a generation call makes no provider call when the provider is
\* unconfigured; otherwise exactly one main call, the first call, whether it
\* raises, answers blank or answers a narrative; and at most one query-enhancement
\* call, made only after a narrative answer with a location supplied, the maps
\* gateway available and a place name extracted.  When the enhancement call raises
\* the generation still returns the narrative.
C24_ProviderCalls ==
    idea.done =>
        LET r == idea.result
        IN /\ ~idea.configured => r.provider_calls = <<>>
           /\ idea.configured =>
                /\ CallsOf("main") = 1
                /\ r.provider_calls[1] = "main"
                /\ CallsOf("enhance") <= 1
                /\ Len(r.provider_calls) = CallsOf("main") + CallsOf("enhance")
           /\ CallsOf("enhance") > 0 =>
                /\ Answered
                /\ idea.location # ""
                /\ idea.maps
                /\ AnswerPlaces # <<>>
           /\ CallsOf("enhance") > 0 /\ idea.provider.enhance = "raise" =>
                /\ r.main = Narrative(r.main.lines)
                /\ r.main.lines # <<>>
                /\ ~r.raised

\* A generation whose enhancement call was made and raised, and whose places were
\* still found with the plain queries.
C24_Witness ==
    /\ idea.done
    /\ idea.result.provider_calls = <<"main", "enhance">>
    /\ idea.provider.enhance = "raise"
    /\ idea.result.places # <<>>
    /\ idea.result.main.heading = ""

(* ============ properties of the timeline panels' venues =============== *)
\* The clickable spans of panel k of the result, each <<i, index in place_names>>.
PanelSpans(k) ==
    UNION {idea.result.timeline[k].entries[e].clickable :
             e \in 1..Len(idea.result.timeline[k].entries)}

\* The candidate names the patterns find in the timeline of idea k.
Mentioned(k) == AllMatches(AnswerTimelines[k])

\* C25: a clickable span of idea k's panel carries k's index and names a place
\* name that was extracted from idea k's timeline (mentioned there and in no earlier
\* timeline), is longer than 3 characters, is not a stop word and has place details;
\* no panel but k's has a span for that name, although a later timeline may mention
\* it in the same or another spelling.
C25_VenueScoping ==
    Answered /\ idea.result.main.heading = "" =>
        \A k \in 1..Len(idea.result.timeline) : \A s \in PanelSpans(k) :
            LET name == AnswerPlaces[s[2] + 1]
            IN /\ s[1] = k - 1
               /\ InSeq(name, Mentioned(k))
               /\ \A j \in 1..(k - 1) : ~InSeq(name, Mentioned(j))
               /\ NameLength(name) > 3
               /\ Lower(name) \notin StopWords
               /\ \E p \in 1..Len(idea.result.places) :
                     Lower(idea.result.places[p].name) = Lower(name)
               /\ \A j \in 1..Len(idea.result.timeline) :
                     j # k => \A t \in PanelSpans(j) : t[2] # s[2]

\* Two ideas, the later one mentioning the earlier one's venue in both spellings and
\* a stop word: the first panel has the venue's span.
C25_Witness ==
    /\ Answered
    /\ idea.provider.content = VariantIdeas
    /\ Len(idea.result.timeline) = 2
    /\ PanelSpans(1) = {<<0, 0>>}
    /\ InSeq("Kerry Park", Mentioned(2))
    /\ InSeq("Home", Mentioned(2))
    /\ PanelSpans(2) = {<<1, 1>>}
    /\ AnswerPlaces = <<"Kerry Park", "kerry park">>

(* ============ properties of the place resolution ===================== *)
\* The search block ran: a narrative answer, a location, the maps gateway and at
\* least one place name.
Searched == Answered /\ idea.location # "" /\ idea.maps /\ AnswerPlaces # <<>>

\* The place ids a resolution keeps that takes, name after name, the first result
\* of the name's search whose place id is not among the used ones.
RECURSIVE FirstUnused(_, _)
FirstUnused(place_names, used) ==
    IF place_names = <<>> THEN <<>>
    ELSE LET results ==
                 SearchResults(Head(place_names), idea.gateway,
                               EnhancedQueries(AnswerPlaces, idea.provider.enhance)).results
             unused == SelectSeq(results, LAMBDA id : id \notin used)
         IN IF NameLength(Head(place_names)) <= 3 \/ unused = <<>>
            THEN FirstUnused(Tail(place_names), used)
            ELSE <<unused[1]>> \o FirstUnused(Tail(place_names), used \cup {unused[1]})

\* C28: for each extracted place name the first result of its search (improved or
\* located query, then the bare name, then the venue type) whose place id was not
\* used earlier in the call is kept and its details fetched, so a name is unresolved
\* only if its search has no result or only used ones; and no place id has its
\* details fetched twice.
C28_PlaceResolution ==
    Searched =>
        LET fetched_ids == idea.result.detail_calls
        IN /\ fetched_ids = FirstUnused(AnswerPlaces, {})
           /\ \A a, b \in 1..Len(fetched_ids) : fetched_ids[a] = fetched_ids[b] => a = b

(* ================ properties of the place searches ==================== *)
\* The place ids of a result list that are not among the used ones, in result order.
Unused(a) == SelectSeq(a.candidates, LAMBDA place_id : place_id \notin a.used_before)

\* The place ids the activities before the k-th received in this pass.
Received(k) == {enh.enhanced[j].place_id : j \in 1..(k - 1)} \ {""}

\* C26: in one pass an activity whose search returned a candidate always has a
\* selected place: the first candidate, in result order, that no earlier selection
\* of the pass used, and the top candidate only when every candidate was used; so
\* an activity receives a place_id an earlier activity received only if every one of
\* its candidates had been used.  The place_id an activity receives is its selected
\* place, received when gmaps.place returns the details.
C26_PlaceReuse ==
    \A k \in 1..Len(enh.enhanced) :
        LET a == enh.enhanced[k]
        IN /\ a.used_before = {enh.enhanced[j].selected_place : j \in 1..(k - 1)} \ {""}
           /\ a.candidates # <<>> => a.selected_place # ""
           /\ Unused(a) # <<>> => a.selected_place = Unused(a)[1]
           /\ a.selected_place \in a.used_before =>
                 /\ Unused(a) = <<>>
                 /\ a.selected_place = a.candidates[1]
           /\ a.place_id \in Received(k) =>
                 \A c \in 1..Len(a.candidates) : a.candidates[c] \in a.used_before
           /\ a.place_id = IF a.details = "result" THEN a.selected_place ELSE ""

\* A pass of three activities: the second skips the used top candidate for the next
\* one, the third finds both candidates used and receives the first activity's place.
C26_Witness ==
    /\ Len(enh.enhanced) = 3
    /\ enh.enhanced[1].place_id = "a"
    /\ enh.enhanced[2].candidates = <<"a", "b">>
    /\ enh.enhanced[2].place_id = "b"
    /\ enh.enhanced[3].candidates = <<"a", "b">>
    /\ enh.enhanced[3].place_id = "a"

\* The searches search_places of the gateway made after geocoding, as provider calls
\* with their outcomes.
GatewaySearches ==
    LET calls == gw.result.calls
        o == gw.outcomes
        Outcome(k) ==
            IF calls[k] = "places" THEN o.places
            ELSE IF k = 3 /\ o.places = "empty" THEN o.nearby_open
            ELSE o.nearby
    IN IF gw.op # "search_places" \/ calls = <<>> THEN <<>>
       ELSE [k \in 1..(Len(calls) - 1) |->
               Call(calls[k + 1],
                    IF Outcome(k + 1) = "raise" THEN Raises
                    ELSE Found(Results(Outcome(k + 1))))]

\* The order the claim asks of the searches made for a query: with a category the
\* typed nearby search first and the text search second exactly when the typed one
\* raised or returned nothing; without a category the text search alone.
TypedFirst(search_query, calls) ==
    IF PlacesType(search_query) # ""
    THEN /\ calls[1].method = "places_nearby"
         /\ Len(calls) = (IF calls[1].outcome.raises \/ calls[1].outcome.results = <<>>
                          THEN 2 ELSE 1)
         /\ Len(calls) = 2 => calls[2].method = "places"
    ELSE Len(calls) = 1 /\ calls[1].method = "places"

\* C27: every place search, of an activity of the backend's pass and of the
\* gateway's search_places, issues its provider searches in that order.
C27_SearchOrder ==
    /\ \A k \in 1..Len(enh.enhanced) :
          TypedFirst(enh.enhanced[k].search_query, enh.enhanced[k].calls)
    /\ GatewaySearches # <<>> => TypedFirst(gw.query, GatewaySearches)

(* ================ properties of the templated budget ================== *)
\* The sum of estimated_cost over a list of activities.
RECURSIVE TotalCost(_)
TotalCost(list) ==
    IF list = <<>> THEN 0 ELSE Head(list).estimated_cost + TotalCost(Tail(list))

\* C29: without a maps client the estimated costs of the activities that
\* generate_activities returns add up to at most the budget, for every event type,
\* budget >= 0, list of vibes and time_available.
C29_WithinBudget ==
    (acts.done /\ areq.budget >= 0 /\ ~acts.result.raised) =>
        TotalCost(acts.result.list) <= areq.budget

(* ============== properties of the interleaved fetches ================= *)
\* C30: with the reads and the increments of concurrent display fetches interleaved
\* in any order, the stored view_count of a plan is the number of fetches of that
\* plan that have read it and made their increment, none lost and none applied to
\* another plan; a fetch that has read a plan and not yet incremented holds the id
\* of the plan it read, and once it has incremented, the stored count is above the
\* count it read.
C30_NoLostViews ==
    /\ \A r \in plans : r.view_count = fetched[r.id]
    /\ \A id \in Ids \ StoredIds(plans) : fetched[id] = 0
    /\ \A w \in Workers :
          loc[w].op = "get_shared" /\ pc[w] \in {"increment", "done"} /\ loc[w].row # <<>>
            => /\ loc[w].row[1].id = loc[w].id
               /\ pc[w] = "done" =>
                     RowOf(plans, loc[w].id).view_count > loc[w].row[1].view_count

\* Two fetches of one plan overlapped: a fetch that read the count 0 has made its
\* increment and the stored count is 2.
C30_Witness ==
    \E w \in Workers :
        /\ pc[w] = "done" /\ loc[w].op = "get_shared" /\ loc[w].status = 200
        /\ loc[w].row[1].view_count = 0
        /\ RowOf(plans, loc[w].id).view_count = 2

====
